---- MODULE Spec2Model ----
(***************************************************************************)
(* raven-go: the capture and delivery pipeline of the Sentry client.       *)
(*                                                                         *)
(* The repository holds several generations of the client.  Two of them    *)
(* differ in the way the queue and the worker use the connection config:   *)
(*   "EventInfo"  src/client.go 1-395: the worker reads url and auth       *)
(*                header when it dequeues an event (the Packet client of   *)
(*                src/client.go 659-1045 has the same Capture and worker); *)
(*   "Event"      src/unnamed/part_006 1-231: Capture stores url and auth  *)
(*                header in the queued event.                              *)
(* The variable variant fixes the generation a behaviour is about.         *)
(***************************************************************************)
EXTENDS Integers, Sequences, FiniteSets, TLC

(* ------------------------------ bounds -------------------------------- *)
\* capacity of the queue channel (a package variable, 100 by default)
MaxQueueBuffer == 2
\* number of Capture calls that run concurrently
MaxInFlight == 2
\* number of SetDSN calls after NewClient
MaxSetDSN == 1
\* number of Capture calls of a behaviour: enough to fill the queue while the
\* worker holds an event, and to have one more event dropped
MaxCaptures == MaxQueueBuffer + 2
\* number of Capture, SetDSN and Close calls of a behaviour together
MaxOps == MaxCaptures
\* SetDSN calls made on a client that captures nothing
MaxDSNCalls == 2

Calls == 1..MaxCaptures

(* ------------------------------ values -------------------------------- *)
Variants == {"EventInfo", "Event"}

Nil == "nil"
ErrEventDropped == "raven: event dropped"
ErrClientNotConfigured == "raven: client not configured"
ErrEmptyMessage == "raven: empty message"
ErrNoMessage == "raven: no message"
ErrHTTP == "raven: got http status"
ErrDSNParse == "parse error"
ErrDSNMissingKeys == "raven: dsn missing public key and/or private key"
ErrDSNMissingSecret == "raven: dsn missing private key"
ErrDSNMissingProject == "raven: dsn missing project id"

\* a url by its parts; a path is the sequence of its segments, each one
\* preceded by "/" in the string: <<>> is no path, <<"">> is "/",
\* <<"sentry", "1">> is "/sentry/1"
URL(scheme, host, path) == [scheme |-> scheme, host |-> host, path |-> path]
\* the url of a client without DSN, the empty string
EmptyURL == URL("", "", <<>>)
\* fmt.Sprintf("Sentry sentry_version=4, sentry_key=%s, sentry_secret=%s", ...)
AuthHeader(publicKey, secretKey) ==
  <<"Sentry sentry_version=4, sentry_key=", publicKey, ", sentry_secret=",
    secretKey>>
EmptyAuth == <<>>

\* a DSN string by what url.Parse makes of it: whether it parses, whether it
\* has user-info and a password, and the parts of the uri
DSN(parses, scheme, user, pass, key, secret, host, path) ==
  [empty |-> FALSE, parses |-> parses, scheme |-> scheme, user |-> user,
   pass |-> pass, key |-> key, secret |-> secret, host |-> host, path |-> path]

EmptyDSN ==
  [DSN(TRUE, "", FALSE, FALSE, "", "", "", <<>>) EXCEPT !.empty = TRUE]
\* the DSNs of the SetDSN calls made while events are captured
DSNs ==
  { EmptyDSN,                                                       \* ""
    DSN(TRUE, "https", TRUE, TRUE, "u1", "p1", "h1", <<"sentry", "1">>),
    DSN(TRUE, "https", TRUE, TRUE, "u2", "p2", "h2", <<"sentry", "2">>),
    DSN(TRUE, "https", TRUE, TRUE, "u3", "p3", "h3", <<"sentry", "">>),
    DSN(TRUE, "https", TRUE, TRUE, "u4", "p4", "h4", <<>>),
    DSN(TRUE, "https", TRUE, FALSE, "u5", "", "h5", <<"sentry", "5">>),
    DSN(TRUE, "https", FALSE, FALSE, "", "", "h6", <<"sentry", "6">>),
    DSN(FALSE, "", FALSE, FALSE, "", "", "", <<>>) }         \* url.Parse fails

\* the DSNs given to NewClient: none, or a valid one (the others leave the
\* config of a new client as the empty DSN does)
InitDSNs == {d \in DSNs : d.empty \/ d.host = "h1"}

\* DSNs that are not empty and that SetDSN rejects on a new client: url.Parse
\* fails, no user-info, no project id
BadDSNs == {d \in DSNs : ~d.empty /\ (~d.parses \/ ~d.user \/ d.host = "h3")}

\* the DSNs of the SetDSN calls made on a client that captures nothing: both
\* schemes, every shape of user-info (none, no password, empty password) and
\* of path (none, "/", "/1", "/sentry/1", "/sentry/", "/a/b/2")
DSNUserInfos ==
  { [user |-> FALSE, pass |-> FALSE, key |-> "", secret |-> ""],
    [user |-> TRUE, pass |-> FALSE, key |-> "u", secret |-> ""],
    [user |-> TRUE, pass |-> TRUE, key |-> "u", secret |-> "p"],
    [user |-> TRUE, pass |-> TRUE, key |-> "u", secret |-> ""],
    [user |-> TRUE, pass |-> TRUE, key |-> "k", secret |-> "s"] }
DSNPaths ==
  { <<>>, <<"">>, <<"1">>, <<"sentry", "1">>, <<"sentry", "">>,
    <<"a", "b", "2">> }
WideDSNs ==
  { DSN(TRUE, scheme, ui.user, ui.pass, ui.key, ui.secret, "example.com", path) :
      scheme \in {"https", "http"}, ui \in DSNUserInfos, path \in DSNPaths }
  \cup {d \in DSNs : d.empty \/ ~d.parses}

Config(u, p, a) == [url |-> u, projectID |-> p, authHeader |-> a]
EmptyConfig == Config(EmptyURL, "", EmptyAuth)

\* strings.LastIndex(uri.Path, "/"): the index of the last segment of the
\* path, 0 standing for -1 (no "/" in the path)
LastIndex(path) == Len(path)

\* uri.Path[:idx+1] + "api/" + projectID + "/store/"
StorePath_appended(path, project) ==
  path \o <<"api", project, "store", "">>

StorePath(path, project) ==
  SubSeq(path, 1, LastIndex(path) - 1) \o <<"api", project, "store", "">>

\* the tests of uri.User and of uri.User.Password()
UserInfoError_passwordOptional(dsn) ==
  IF ~dsn.user THEN ErrDSNMissingKeys ELSE Nil

UserInfoError(dsn) ==
  IF ~dsn.user THEN ErrDSNMissingKeys
  ELSE IF ~dsn.pass THEN ErrDSNMissingSecret
  ELSE Nil

\* a SetDSN for which the empty DSN clears the config
SetDSN_emptyClears(cfg, dsn) ==
  IF dsn.empty THEN [cfg |-> EmptyConfig, err |-> Nil]
  ELSE IF ~dsn.parses THEN [cfg |-> cfg, err |-> ErrDSNParse]
  ELSE IF UserInfoError(dsn) # Nil THEN [cfg |-> cfg, err |-> UserInfoError(dsn)]
  ELSE LET idx == LastIndex(dsn.path)
           project == IF idx # 0 THEN dsn.path[idx] ELSE cfg.projectID
           path == IF idx # 0 THEN StorePath(dsn.path, project) ELSE dsn.path
       IN IF project = ""
          THEN [cfg |-> Config(cfg.url, project, cfg.authHeader),
                err |-> ErrDSNMissingProject]
          ELSE [cfg |-> Config(URL(dsn.scheme, dsn.host, path), project,
                               AuthHeader(dsn.key, dsn.secret)),
                err |-> Nil]

\* Client.SetDSN: the config and the error it leaves, from the config before.
\* The project id is assigned before it is tested.
SetDSN(cfg, dsn) ==
  IF dsn.empty THEN [cfg |-> cfg, err |-> Nil]
  ELSE IF ~dsn.parses THEN [cfg |-> cfg, err |-> ErrDSNParse]
  ELSE IF UserInfoError(dsn) # Nil THEN [cfg |-> cfg, err |-> UserInfoError(dsn)]
  ELSE LET idx == LastIndex(dsn.path)
           project == IF idx # 0 THEN dsn.path[idx] ELSE cfg.projectID
           path == IF idx # 0 THEN StorePath(dsn.path, project) ELSE dsn.path
       IN IF project = ""
          THEN [cfg |-> Config(cfg.url, project, cfg.authHeader),
                err |-> ErrDSNMissingProject]
          ELSE [cfg |-> Config(URL(dsn.scheme, dsn.host, path), project,
                               AuthHeader(dsn.key, dsn.secret)),
                err |-> Nil]

(* ------------------------------ events -------------------------------- *)
\* an event by the fields the pipeline decides on; isNil is a nil *Event
\* Severity: (iota + 1) * 10, the zero value 0 being no level
NoLevel == 0
WARNING == 30
ERROR == 40
\* a Timestamp: the zero time, time.Now(), and a time a caller sets itself
ZeroTime == 0
Now == 1
CallerTime == 2

Ev(m, id, p) ==
  [isNil |-> FALSE, Message |-> m, EventID |-> id, Project |-> p,
   Timestamp |-> ZeroTime, Level |-> NoLevel, Logger |-> ""]
NilEvent == [Ev("", "", "") EXCEPT !.isNil = TRUE]
\* an event whose caller has set timestamp, level and logger
EvWith(e, t, l, g) == [e EXCEPT !.Timestamp = t, !.Level = l, !.Logger = g]

\* the id uuid() generates, and an id a caller sets itself
uuid == "uuid4"
CallerID == "caller-id"

\* hex.EncodeToString: two lowercase digits for each byte
HexDigits ==
  <<"0", "1", "2", "3", "4", "5", "6", "7", "8", "9", "a", "b", "c", "d", "e",
    "f">>
EncodeToString(bytes) ==
  [i \in 1..(2 * Len(bytes)) |->
     LET b == bytes[(i + 1) \div 2]
     IN HexDigits[(IF i % 2 = 1 THEN b \div 16 ELSE b % 16) + 1]]

\* the 16 bytes io.ReadFull(rand.Reader, id) can leave in id
RandReads ==
  { [i \in 1..16 |-> 0], [i \in 1..16 |-> 255],
    [i \in 1..16 |-> (i * 37 + 11) % 256] }

\* the hex encoding of the bytes as read, version and variant left as they
\* came
uuidText_asRead(id) == EncodeToString(id)

\* uuid(): id[6] &= 0x0F, id[6] |= 0x40, id[8] &= 0x3F, id[8] |= 0x80, then
\* the hex encoding (id[6] and id[8] are the 7th and the 9th byte)
uuidText(id) ==
  EncodeToString([id EXCEPT ![7] = (@ % 16) + 64, ![9] = (@ % 64) + 128])

\* the characters of an event id: of the generated one, and of the one the
\* caller sets, which no code changes
IDText(id) ==
  IF id = uuid THEN uuidText([i \in 1..16 |-> (i * 37 + 11) % 256])
  ELSE IF id = CallerID THEN <<"c", "a", "l", "l", "e", "r", "-", "i", "d">>
  ELSE <<>>

\* EventInfo.Init: the error it returns and the event it leaves
EventInfoInit_noCheck(eventInfo, project) ==
  [err |-> Nil,
   info |-> [eventInfo EXCEPT
               !.Project = IF @ = "" THEN project ELSE @,
               !.EventID = IF @ = "" THEN uuid ELSE @,
               !.Timestamp = IF @ = ZeroTime THEN Now ELSE @,
               !.Level = IF @ = NoLevel THEN ERROR ELSE @,
               !.Logger = IF @ = "" THEN "root" ELSE @]]

EventInfoInit(eventInfo, project) ==
  IF eventInfo.Message = ""
  THEN [err |-> ErrEmptyMessage, info |-> eventInfo]
  ELSE [err |-> Nil,
        info |-> [eventInfo EXCEPT
                    !.Project = IF @ = "" THEN project ELSE @,
                    !.EventID = IF @ = "" THEN uuid ELSE @,
                    !.Timestamp = IF @ = ZeroTime THEN Now ELSE @,
                    !.Level = IF @ = NoLevel THEN ERROR ELSE @,
                    !.Logger = IF @ = "" THEN "root" ELSE @]]

\* Event.Fill: unset fields take the other event's values
Fill_overwrite(event, otherEvent) ==
  [event EXCEPT
     !.Message = IF @ = "" THEN otherEvent.Message ELSE @,
     !.EventID = IF @ = "" THEN otherEvent.EventID ELSE @,
     !.Project = IF @ = "" THEN otherEvent.Project ELSE @,
     !.Timestamp = IF @ = ZeroTime THEN otherEvent.Timestamp ELSE @,
     !.Level = otherEvent.Level,
     !.Logger = otherEvent.Logger]

Fill(event, otherEvent) ==
  [event EXCEPT
     !.Message = IF @ = "" THEN otherEvent.Message ELSE @,
     !.EventID = IF @ = "" THEN otherEvent.EventID ELSE @,
     !.Project = IF @ = "" THEN otherEvent.Project ELSE @,
     !.Timestamp = IF @ = ZeroTime THEN otherEvent.Timestamp ELSE @,
     !.Level = IF @ = NoLevel THEN otherEvent.Level ELSE @,
     !.Logger = IF @ = "" THEN otherEvent.Logger ELSE @]

\* Event.FillDefaults: the defaults of project, level and logger, then the
\* lazily generated id and timestamp
FillDefaults(event, project) ==
  LET filled == Fill(event, EvWith(Ev("", "", project), ZeroTime, ERROR, "root"))
  IN [filled EXCEPT !.EventID = IF @ = "" THEN uuid ELSE @,
                    !.Timestamp = IF @ = ZeroTime THEN Now ELSE @]

\* Event.Merge (not in the sources): the other event's set fields win; a nil
\* event merges nothing (Capture calls it with a DefaultContext nobody set)
Merge(event, otherEvent) ==
  IF otherEvent.isNil THEN event
  ELSE [event EXCEPT
          !.Message = IF otherEvent.Message # "" THEN otherEvent.Message ELSE @,
          !.EventID = IF otherEvent.EventID # "" THEN otherEvent.EventID ELSE @,
          !.Project = IF otherEvent.Project # "" THEN otherEvent.Project ELSE @,
          !.Timestamp =
            IF otherEvent.Timestamp # ZeroTime THEN otherEvent.Timestamp ELSE @,
          !.Level = IF otherEvent.Level # NoLevel THEN otherEvent.Level ELSE @,
          !.Logger = IF otherEvent.Logger # "" THEN otherEvent.Logger ELSE @]

\* Client.DefaultContext of the Event client
DefaultContext == Ev("", "", "")

\* the arguments of one Capture call
Arg(c, m, e) == [client |-> c, message |-> m, event |-> e]
NoArg == Arg("none", "", NilEvent)

\* EventInfo client: Capture(eventInfo, captureTags), also on a nil client
\* Event client: Capture(message, event), also on a nil client or a nil event
CaptureArgs(v) ==
  IF v = "EventInfo"
  THEN { Arg("nil", "m", Ev("m", "", "")),
         Arg("client", "", Ev("", "", "")),
         Arg("client", "m", Ev("m", "", "")),
         Arg("client", "m", Ev("m", CallerID, "")) }
  ELSE { Arg("nil", "m", Ev("", "", "")),
         Arg("client", "", Ev("", "", "")),
         Arg("client", "m", Ev("", "", "")),
         Arg("client", "m", Ev("", CallerID, "")),
         Arg("client", "m", NilEvent) }

\* the Capture arguments of a client whose caller sets, or leaves unset, the
\* timestamp, the level and the logger of the event
FinalizeArgs ==
  { Arg("client", m, EvWith(Ev(m, "", ""), t, l, g)) :
      m \in {"", "m"}, t \in {ZeroTime, CallerTime},
      l \in {NoLevel, WARNING, ERROR}, g \in {"", "app", "root"} }

\* a queued event (event / queuedEvent); the EventInfo client stores no config
Queued(k, e, u, a) == [call |-> k, event |-> e, url |-> u, authHeader |-> a]
NoQueued == Queued(0, NilEvent, EmptyURL, EmptyAuth)

\* what f did in CapturePanic(f, ...): it returned, or it panicked with nil,
\* with an error or with another value; text is rval.Error() or
\* fmt.Sprint(rval)
PanicValue(kind, text) == [kind |-> kind, text |-> text]
\* the call was not made by CapturePanic
NoPanicValue == PanicValue("-", "")
PanicValues ==
  { PanicValue("returns", ""), PanicValue("nil", ""), PanicValue("error", "m"),
    PanicValue("value", "m"), PanicValue("error", "") }

\* the returned pair of a Capture call; ch is "ch" (the channel made by the
\* call) or "nil" (the zero value of the named result)
Ret(id, c) == [eventID |-> id, ch |-> c]
NoRet == Ret("", "none")

\* HTTPTransport.Send: the errors it can return for a url
HTTPTransportSend_noGuard(u) == {Nil, ErrHTTP}

HTTPTransportSend(u) == IF u = EmptyURL THEN {Nil} ELSE {Nil, ErrHTTP}

\* HTTPTransport.Send: the number of requests it issues (t.http.Do) for a url
HTTPDo(u) == IF u = EmptyURL THEN 0 ELSE 1

(* ------------------------------- state -------------------------------- *)
VARIABLES
  variant,      \* the generation of the client
  DropHandler,  \* TRUE when Client.DropHandler is set
  url, projectID, authHeader,   \* the connection config, guarded by Client.mu
  lastSetDSN,   \* the last SetDSN call: its dsn and the error it returned
  queue,        \* Client.queue, the buffered channel
  closed,       \* Close has closed the queue
  nSetDSN,      \* SetDSN calls so far
  pc,           \* per Capture call: "idle", "cfg" (config read), "done", "panic",
                \* "nocall" (CapturePanic made no Capture call)
  arg,          \* per Capture call: its arguments
  snap,         \* per Capture call: the config it read under the shared lock
                \* (kept after the call returns)
  merged,       \* per Capture call: the event it is building
  finalID,      \* per Capture call: the id of the event it queued or dropped
  ch,           \* per Capture call: the contents of its result channel
  ret,          \* per Capture call: what it returned
  panicValue,   \* per Capture call: what f did when the call was made by
                \* CapturePanic(f, ...)
  dropped,      \* the DropHandler invocations, in order
  enqueued,     \* the calls whose event entered the queue, in order
  wpc,          \* worker: "recv", "dequeued", "sending", "exited"
  cur,          \* worker: the queued event it holds
  wsend,        \* worker: the url and auth header of the Send call in progress
  sendLog,      \* the Transport.Send calls, in order
  sendRet,      \* per Capture call: what Transport.Send returned for its event
  resultLog,    \* the calls whose result the worker wrote, in order
  httpRequests, \* the HTTP requests HTTPTransport.Send has issued
  input,        \* the arguments of a function applied outside any Capture call
  output        \* what that function returned

cfgVars == <<url, projectID, authHeader, lastSetDSN>>
callVars == <<pc, arg, snap, merged, finalID, ch, ret, panicValue>>
workerVars == <<wpc, cur, wsend, sendLog, sendRet, resultLog,
                 httpRequests>>
vars == <<variant, DropHandler, url, projectID, authHeader, lastSetDSN, queue,
          closed,
          nSetDSN, pc, arg, snap, merged, finalID, ch, ret, panicValue, dropped,
          enqueued,
          wpc, cur, wsend, sendLog, sendRet, resultLog,
                 httpRequests, input, output>>

\* no Send call in progress
NoSend == [url |-> EmptyURL, authHeader |-> EmptyAuth]

\* make(chan error, 1)
ChanCap == 1

\* a SetDSN call and what it returned
SetDSNCall(dsn, err) == [dsn |-> dsn, err |-> err]

\* NewClient(dsn): SetDSN(dsn) applied to the zero config; NewClient returns
\* the client together with the error of that call
NewClient(dsn) ==
  LET r == SetDSN(EmptyConfig, dsn)
  IN /\ url = r.cfg.url
     /\ projectID = r.cfg.projectID
     /\ authHeader = r.cfg.authHeader
     /\ lastSetDSN = SetDSNCall(dsn, r.err)

\* no function applied outside a Capture call
NoInput == [fn |-> "none"]
NoOutput == [done |-> FALSE]

\* NewClient with one of the given DSNs: the queue is made, the worker
\* started, SetDSN(dsn) applied
ClientState(dsns) ==
  /\ variant \in Variants
  /\ DropHandler \in BOOLEAN
  /\ \E dsn \in dsns : NewClient(dsn)
  /\ queue = <<>>
  /\ closed = FALSE
  /\ nSetDSN = 0
  /\ pc = [k \in Calls |-> "idle"]
  /\ arg = [k \in Calls |-> NoArg]
  /\ snap = [k \in Calls |-> EmptyConfig]
  /\ merged = [k \in Calls |-> NilEvent]
  /\ finalID = [k \in Calls |-> ""]
  /\ ch = [k \in Calls |-> <<>>]
  /\ ret = [k \in Calls |-> NoRet]
  /\ panicValue = [k \in Calls |-> NoPanicValue]
  /\ dropped = <<>>
  /\ enqueued = <<>>
  /\ wpc = "recv"
  /\ cur = NoQueued
  /\ wsend = NoSend
  /\ sendLog = <<>>
  /\ sendRet = [k \in Calls |-> "none"]
  /\ resultLog = <<>>
  /\ httpRequests = 0

ClientInit(dsns) == ClientState(dsns) /\ input = NoInput /\ output = NoOutput

\* a new client and the arguments of one function call, not yet made
FunctionInit(inputs) ==
  ClientState({EmptyDSN}) /\ input \in inputs /\ output = NoOutput

\* everything of the client a function applied outside a Capture call leaves
\* alone
clientVars ==
  <<variant, DropHandler, cfgVars, queue, closed, nSetDSN, callVars, dropped,
    enqueued, workerVars>>

Init == ClientInit(InitDSNs)

\* NewClient with a DSN for which SetDSN returns an error
BadDSNInit == ClientInit(BadDSNs)

InFlight == {k \in Calls : pc[k] = "cfg"}
Started == {k \in Calls : pc[k] # "idle"}
Ops == Cardinality(Started) + nSetDSN + (IF closed THEN 1 ELSE 0)
\* calls start in the order of their numbers
NextCall(k) ==
  /\ pc[k] = "idle"
  /\ \A j \in 1..(k - 1) : pc[j] # "idle"
  /\ Ops < MaxOps

(* ------------------------------ SetDSN -------------------------------- *)
\* Client.SetDSN, one exclusive-lock section
SetDSNApply(dsn) ==
  /\ nSetDSN' = nSetDSN + 1
  /\ LET r == SetDSN(Config(url, projectID, authHeader), dsn)
     IN /\ url' = r.cfg.url
        /\ projectID' = r.cfg.projectID
        /\ authHeader' = r.cfg.authHeader
        /\ lastSetDSN' = SetDSNCall(dsn, r.err)
  /\ UNCHANGED <<input, output, variant, DropHandler, queue, closed, callVars, dropped,
                 enqueued, workerVars>>

\* a SetDSN call while events are captured
ClientSetDSN(dsn) ==
  /\ nSetDSN < MaxSetDSN
  /\ Ops < MaxOps
  /\ SetDSNApply(dsn)

\* a SetDSN call on a client that captures nothing
DSNSetDSN(dsn) ==
  /\ nSetDSN < MaxDSNCalls
  /\ SetDSNApply(dsn)

(* ------------------------------ Capture ------------------------------- *)
\* the select of Capture: the send case when the queue has room, else default
NonBlockingSend_blocking(q) == IF Len(q) < MaxQueueBuffer THEN "sent" ELSE "block"

NonBlockingSend_unbounded(q) == "sent"

NonBlockingSend(q) == IF Len(q) < MaxQueueBuffer THEN "sent" ELSE "default"

\* what the default case writes to the result channel
DropError_none == Nil

DropError == ErrEventDropped

\* the select statement of Capture with its default case, for call k
SelectEnqueue(k, q, e) ==
  /\ NonBlockingSend(queue) # "block"
  /\ finalID' = [finalID EXCEPT ![k] = e.EventID]
  /\ IF NonBlockingSend(queue) = "sent"
     THEN /\ queue' = Append(queue, q)
          /\ enqueued' = Append(enqueued, k)
          /\ UNCHANGED <<dropped, ch>>
     ELSE /\ dropped' = IF DropHandler
                        THEN Append(dropped, [call |-> k, event |-> e])
                        ELSE dropped
          /\ Len(ch[k]) < ChanCap
          /\ ch' = [ch EXCEPT ![k] = Append(@, DropError)]
          /\ UNCHANGED <<queue, enqueued>>

\* EventInfo client, Capture up to the shared-lock read of the project id
EventInfoCaptureCall(k, a) ==
  /\ variant = "EventInfo"
  /\ NextCall(k)
  /\ arg' = [arg EXCEPT ![k] = a]
  /\ IF a.client = "nil"
     THEN /\ pc' = [pc EXCEPT ![k] = "done"]
          /\ ret' = [ret EXCEPT ![k] = Ret("", "nil")]
          /\ UNCHANGED <<snap, merged>>
     ELSE /\ ~closed
          /\ Cardinality(InFlight) < MaxInFlight
          /\ pc' = [pc EXCEPT ![k] = "cfg"]
          /\ snap' = [snap EXCEPT ![k] = Config(EmptyURL, projectID, EmptyAuth)]
          /\ merged' = [merged EXCEPT ![k] = a.event]
          /\ UNCHANGED ret
  /\ UNCHANGED <<input, output, variant, DropHandler, cfgVars, queue, closed, nSetDSN, finalID,
                 ch, dropped, enqueued, workerVars>>

\* EventInfo client: a Capture call made by the application
EventInfoCapture(k, a) ==
  /\ EventInfoCaptureCall(k, a)
  /\ a \in CaptureArgs(variant)
  /\ UNCHANGED panicValue

\* EventInfo client, Capture from Init to its return
EventInfoCaptureEnqueue(k) ==
  /\ variant = "EventInfo"
  /\ pc[k] = "cfg"
  /\ LET r == EventInfoInit(merged[k], snap[k].projectID)
     IN IF r.err # Nil
        THEN /\ Len(ch[k]) < ChanCap
             /\ ch' = [ch EXCEPT ![k] = Append(@, r.err)]
             /\ ret' = [ret EXCEPT ![k] = Ret("", "ch")]
             /\ UNCHANGED <<finalID, queue, enqueued, dropped>>
        ELSE /\ SelectEnqueue(k, Queued(k, r.info, EmptyURL, EmptyAuth), r.info)
             /\ ret' = [ret EXCEPT ![k] = Ret(r.info.EventID, "ch")]
  /\ pc' = [pc EXCEPT ![k] = "done"]
  /\ UNCHANGED snap
  /\ merged' = [merged EXCEPT ![k] = NilEvent]
  /\ UNCHANGED <<input, output, variant, DropHandler, cfgVars, closed, nSetDSN, arg,
                 panicValue, workerVars>>

\* Event client: the event id Capture returns is read from the caller's event
ReturnedEventID(event, mergedEvent) == event.EventID

\* Event client, Capture up to the shared-lock read of project, url and header
EventCaptureCall(k, a) ==
  /\ variant = "Event"
  /\ NextCall(k)
  /\ arg' = [arg EXCEPT ![k] = a]
  /\ IF a.client = "nil"
     THEN /\ pc' = [pc EXCEPT ![k] = "done"]
          /\ ch' = [ch EXCEPT ![k] = Append(@, ErrClientNotConfigured)]
          /\ ret' = [ret EXCEPT ![k] = Ret("", "ch")]
          /\ UNCHANGED <<snap, merged>>
     ELSE /\ ~closed
          /\ Cardinality(InFlight) < MaxInFlight
          /\ IF a.message = ""
             THEN /\ pc' = [pc EXCEPT ![k] = "done"]
                  /\ ch' = [ch EXCEPT ![k] = Append(@, ErrNoMessage)]
                  /\ ret' = [ret EXCEPT ![k] = Ret("", "ch")]
                  /\ UNCHANGED <<snap, merged>>
             ELSE /\ pc' = [pc EXCEPT ![k] = "cfg"]
                  /\ merged' = [merged EXCEPT ![k] =
                       Merge(Merge(Ev(a.message, "", ""), DefaultContext),
                             a.event)]
                  /\ snap' = [snap EXCEPT ![k] =
                       Config(url, projectID, authHeader)]
                  /\ UNCHANGED <<ch, ret>>
  /\ UNCHANGED <<input, output, variant, DropHandler, cfgVars, queue, closed, nSetDSN, finalID,
                 dropped, enqueued, workerVars>>

\* Event client: a Capture call made by the application
EventCapture(k, a) ==
  /\ EventCaptureCall(k, a)
  /\ a \in CaptureArgs(variant)
  /\ UNCHANGED panicValue

\* Event client, Capture from FillDefaults to its return; the return reads
\* the EventID of the caller's event, a nil pointer dereference on a nil event
EventCaptureEnqueue(k) ==
  /\ variant = "Event"
  /\ pc[k] = "cfg"
  /\ LET mergedEvent == FillDefaults(merged[k], snap[k].projectID)
     IN /\ SelectEnqueue(k, Queued(k, mergedEvent, snap[k].url,
                                   snap[k].authHeader), mergedEvent)
        /\ IF arg[k].event.isNil
           THEN pc' = [pc EXCEPT ![k] = "panic"] /\ UNCHANGED ret
           ELSE /\ pc' = [pc EXCEPT ![k] = "done"]
                /\ ret' = [ret EXCEPT ![k] =
                     Ret(ReturnedEventID(arg[k].event, mergedEvent), "ch")]
  /\ UNCHANGED snap
  /\ merged' = [merged EXCEPT ![k] = NilEvent]
  /\ UNCHANGED <<input, output, variant, DropHandler, cfgVars, closed, nSetDSN, arg,
                 panicValue, workerVars>>

\* a Capture call whose event carries any of the fields finalization fills
CaptureFields(k, a) ==
  /\ a \in FinalizeArgs
  /\ EventInfoCaptureCall(k, a) \/ EventCaptureCall(k, a)
  /\ UNCHANGED panicValue

(* ---------------------------- CapturePanic ---------------------------- *)
\* recover() in the deferred function: nil when f returned, and nil as well
\* when f panicked with nil
Recover_none(o) == PanicValue("nil", "")

Recover(o) == IF o.kind = "returns" THEN PanicValue("nil", "") ELSE o

\* the arguments of the Capture call CapturePanic makes for the value rval:
\* the message is rval.Error() or fmt.Sprint(rval); the EventInfo client
\* passes NewEventInfo(message, ...), the Event client an event that holds
\* the exception only
PanicArg(c, rval) ==
  Arg(c, rval.text,
      IF variant = "EventInfo" THEN Ev(rval.text, "", "") ELSE Ev("", "", ""))

\* Client.CapturePanic(f, ...) as call k on client c, f doing o: f runs, the
\* deferred function recovers and, unless recover() returned nil, starts the
\* one Capture call; CapturePanic returns when that call returns
CapturePanic(k, c, o) ==
  /\ o \in PanicValues
  /\ panicValue' = [panicValue EXCEPT ![k] = o]
  /\ IF Recover(o).kind = "nil"
     THEN /\ NextCall(k)
          /\ pc' = [pc EXCEPT ![k] = "nocall"]
          /\ UNCHANGED <<input, output, variant, DropHandler, cfgVars, queue, closed, nSetDSN,
                         arg, snap, merged, finalID, ch, ret, dropped,
                         enqueued, workerVars>>
     ELSE \/ EventInfoCaptureCall(k, PanicArg(c, Recover(o)))
          \/ EventCaptureCall(k, PanicArg(c, Recover(o)))

(* ------------------------------- Close -------------------------------- *)
\* a Close that throws the queued events away
ClientClose_discarding ==
  /\ ~closed
  /\ Ops < MaxOps
  /\ InFlight = {}
  /\ closed' = TRUE
  /\ queue' = <<>>
  /\ UNCHANGED <<input, output, variant, DropHandler, cfgVars, nSetDSN, callVars,
                 dropped, enqueued, workerVars>>

\* Client.Close: called once, when the client is no longer used
ClientClose ==
  /\ ~closed
  /\ Ops < MaxOps
  /\ InFlight = {}
  /\ closed' = TRUE
  /\ UNCHANGED <<input, output, variant, DropHandler, cfgVars, queue, nSetDSN, callVars,
                 dropped, enqueued, workerVars>>

(* ------------------------------- worker ------------------------------- *)
\* a receive from the queue channel: the oldest element
Receive_newest(q) == [event |-> q[Len(q)], rest |-> SubSeq(q, 1, Len(q) - 1)]

Receive(q) == [event |-> Head(q), rest |-> Tail(q)]

\* the record of a Transport.Send call
SendCall(q, c) ==
  [call |-> q.call, event |-> q.event, url |-> c.url,
   authHeader |-> c.authHeader]

\* EventInfo client: for event := range client.queue
EventInfoWorkerReceive ==
  /\ variant = "EventInfo"
  /\ wpc = "recv"
  /\ queue # <<>>
  /\ cur' = Receive(queue).event
  /\ queue' = Receive(queue).rest
  /\ wpc' = "dequeued"
  /\ UNCHANGED <<input, output, variant, DropHandler, cfgVars, closed, nSetDSN, callVars,
                 dropped, enqueued, wsend, sendLog, sendRet, resultLog,
                 httpRequests>>

\* EventInfo client: the url and auth header of a Send call are the client's
LiveConfig_queued(q, u, a) == [url |-> q.url, authHeader |-> q.authHeader]

LiveConfig(q, u, a) == [url |-> u, authHeader |-> a]

\* EventInfo client: the worker reads url and auth header under the shared
\* lock and calls Transport.Send with them
EventInfoWorkerSend ==
  /\ variant = "EventInfo"
  /\ wpc = "dequeued"
  /\ wsend' = LiveConfig(cur, url, authHeader)
  /\ sendLog' = Append(sendLog, SendCall(cur, wsend'))
  /\ wpc' = "sending"
  /\ UNCHANGED <<input, output, variant, DropHandler, cfgVars, queue, closed, nSetDSN,
                 callVars, dropped, enqueued, cur, sendRet, resultLog,
                 httpRequests>>

\* Event client: the url and auth header of a Send call are those queued
QueuedConfig_live(q, u, a) == [url |-> u, authHeader |-> a]

QueuedConfig(q, u, a) == [url |-> q.url, authHeader |-> q.authHeader]

\* Event client: for event := range client.queue, and the call of
\* Transport.Send with the queued url and auth header
EventWorkerReceive ==
  /\ variant = "Event"
  /\ wpc = "recv"
  /\ queue # <<>>
  /\ cur' = Receive(queue).event
  /\ queue' = Receive(queue).rest
  /\ wsend' = QueuedConfig(cur', url, authHeader)
  /\ sendLog' = Append(sendLog, SendCall(cur', wsend'))
  /\ wpc' = "sending"
  /\ UNCHANGED <<input, output, variant, DropHandler, cfgVars, closed, nSetDSN, callVars,
                 dropped, enqueued, sendRet, resultLog,
                 httpRequests>>

\* the value the worker writes to the event's channel
WorkerResult_nil(r) == Nil

WorkerResult(r) == r

\* the queue after Transport.Send returned r for the queued event c: the
\* worker puts nothing back
Requeue_onError(q, c, r) == IF r # Nil THEN Append(q, c) ELSE q

Requeue(q, c, r) == q

\* whether the range loop ends after Transport.Send returned r: it goes on
\* to the next receive, whatever r is
WorkerStops_onError(r) == r # Nil

WorkerStops(r) == FALSE

\* Transport.Send returns r and the worker writes it to the event's channel
WorkerWriteResult(r) ==
  /\ wpc = "sending"
  /\ r \in HTTPTransportSend(wsend.url)
  /\ Len(ch[cur.call]) < ChanCap
  /\ sendRet' = [sendRet EXCEPT ![cur.call] = r]
  /\ ch' = [ch EXCEPT ![cur.call] = Append(@, WorkerResult(r))]
  /\ resultLog' = Append(resultLog, cur.call)
  /\ httpRequests' = httpRequests + HTTPDo(wsend.url)
  /\ cur' = NoQueued
  /\ wsend' = NoSend
  /\ wpc' = IF WorkerStops(r) THEN "exited" ELSE "recv"
  /\ queue' = Requeue(queue, cur, r)
  /\ UNCHANGED <<input, output, variant, DropHandler, cfgVars, closed, nSetDSN,
                 pc, arg, snap, merged, finalID, ret, panicValue, dropped,
                 enqueued, sendLog>>

\* the range loop ends when the queue is closed and drained
WorkerExit ==
  /\ wpc = "recv"
  /\ closed
  /\ queue = <<>>
  /\ wpc' = "exited"
  /\ UNCHANGED <<input, output, variant, DropHandler, cfgVars, queue, closed, nSetDSN,
                 callVars, dropped, enqueued, cur, wsend, sendLog, sendRet,
                 resultLog,
                 httpRequests>>

(* ---------------------------- specification --------------------------- *)
Next ==
  \/ \E dsn \in DSNs : ClientSetDSN(dsn)
  \/ \E k \in Calls : \E a \in CaptureArgs(variant) : EventInfoCapture(k, a)
  \/ \E k \in Calls : EventInfoCaptureEnqueue(k)
  \/ \E k \in Calls : \E a \in CaptureArgs(variant) : EventCapture(k, a)
  \/ \E k \in Calls : EventCaptureEnqueue(k)
  \/ ClientClose
  \/ EventInfoWorkerReceive
  \/ EventInfoWorkerSend
  \/ EventWorkerReceive
  \/ \E r \in {Nil, ErrHTTP} : WorkerWriteResult(r)
  \/ WorkerExit

Spec == Init /\ [][Next]_vars

\* the worker goroutine is scheduled whenever it can run, and every
\* Transport.Send call returns
FairSpec ==
  /\ Spec
  /\ WF_vars(EventInfoWorkerReceive)
  /\ WF_vars(EventInfoWorkerSend)
  /\ WF_vars(EventWorkerReceive)
  /\ WF_vars(\E r \in {Nil, ErrHTTP} : WorkerWriteResult(r))

\* the behaviours in which every Capture call is made by CapturePanic
CapturePanicNext ==
  \/ \E k \in Calls : \E c \in {"client", "nil"} : \E o \in PanicValues :
       CapturePanic(k, c, o)
  \/ \E k \in Calls : EventInfoCaptureEnqueue(k)
  \/ \E k \in Calls : EventCaptureEnqueue(k)
  \/ EventInfoWorkerReceive
  \/ EventInfoWorkerSend
  \/ EventWorkerReceive
  \/ \E r \in {Nil, ErrHTTP} : WorkerWriteResult(r)

CapturePanicSpec == Init /\ [][CapturePanicNext]_vars

\* the behaviours of a client whose first Capture call finalizes an event
\* with any combination of set and unset fields
FinalizeNext ==
  \/ \E a \in FinalizeArgs : CaptureFields(1, a)
  \/ EventInfoCaptureEnqueue(1)
  \/ EventCaptureEnqueue(1)

FinalizeSpec == Init /\ [][FinalizeNext]_vars

\* the behaviours of a new client on which only SetDSN is called
DSNNext == \E dsn \in WideDSNs : DSNSetDSN(dsn)

DSNSpec == ClientInit({EmptyDSN}) /\ [][DSNNext]_vars

\* the behaviours of a client made with a DSN that SetDSN rejects
BadDSNSpec == BadDSNInit /\ [][Next]_vars

(* ----------------------- functions of one event ----------------------- *)
\* the interfaces attached to an event carry at most this many entries
MaxInterfaces == 3

\* the sequences over S of length at most n
SeqsUpTo(S, n) == UNION {[1..m -> S] : m \in 0..n}

\* an attached interface: whether it implements Culpriter, and what its
\* Culprit() returns
Interface(culpriter, culprit) == [culpriter |-> culpriter, culprit |-> culprit]
Interfaces ==
  { Interface(FALSE, ""), Interface(TRUE, ""), Interface(TRUE, "codez"),
    Interface(TRUE, "other") }

\* the range loop over the interfaces in EventInfo.Init and
\* Event.FillDefaults, from interface i on: the culprit it leaves and the
\* interfaces whose Culprit() it called
RECURSIVE CulpritScan_noBreak(_, _, _)
CulpritScan_noBreak(interfaces, i, consulted) ==
  IF i > Len(interfaces) THEN [Culprit |-> "", consulted |-> consulted]
  ELSE IF ~interfaces[i].culpriter
  THEN CulpritScan_noBreak(interfaces, i + 1, consulted)
  ELSE LET rest == CulpritScan_noBreak(interfaces, i + 1, Append(consulted, i))
       IN IF rest.Culprit # "" THEN rest
          ELSE [Culprit |-> interfaces[i].culprit, consulted |-> rest.consulted]

RECURSIVE CulpritScan(_, _, _)
CulpritScan(interfaces, i, consulted) ==
  IF i > Len(interfaces) THEN [Culprit |-> "", consulted |-> consulted]
  ELSE IF ~interfaces[i].culpriter
  THEN CulpritScan(interfaces, i + 1, consulted)
  ELSE IF interfaces[i].culprit # ""
  THEN [Culprit |-> interfaces[i].culprit, consulted |-> Append(consulted, i)]
  ELSE CulpritScan(interfaces, i + 1, Append(consulted, i))

\* if eventInfo.Culprit == "" { for ... }
InitCulprit(culprit, interfaces) ==
  IF culprit # "" THEN [Culprit |-> culprit, consulted |-> <<>>]
  ELSE CulpritScan(interfaces, 1, <<>>)

\* the events finalization derives a culprit for
CulpritInputs ==
  { [fn |-> "culprit", Culprit |-> c, Interfaces |-> is] :
      c \in {"", "set"}, is \in SeqsUpTo(Interfaces, MaxInterfaces) }

\* finalization of an event, the culprit part
InitCulpritCall ==
  /\ input.fn = "culprit"
  /\ ~output.done
  /\ LET r == InitCulprit(input.Culprit, input.Interfaces)
     IN output' = [done |-> TRUE, Culprit |-> r.Culprit,
                   consulted |-> r.consulted]
  /\ UNCHANGED <<input, clientVars>>

CulpritNext == InitCulpritCall

CulpritSpec == FunctionInit(CulpritInputs) /\ [][CulpritNext]_vars

(* ------------------------- Event.Fill(contexts...) --------------------- *)
ScalarFields ==
  { "Message", "EventID", "Project", "Timestamp", "Level", "Logger",
    "Platform", "Culprit", "ServerName" }
ListFields == {"Tags", "Modules", "Interfaces"}

\* the value of an unset scalar field
Zero(f) ==
  IF f = "Timestamp" THEN ZeroTime ELSE IF f = "Level" THEN NoLevel ELSE ""

\* a map[string]interface{}: nil, or the entries it holds
Map(isNil, m) == [isNil |-> isNil, m |-> m]
NilMap == Map(TRUE, <<>>)

\* an Event, or a Context, with no field set
ZeroEvent ==
  [f \in ScalarFields \cup ListFields \cup {"Extra"} |->
     IF f \in ScalarFields THEN Zero(f)
     ELSE IF f \in ListFields THEN <<>>
     ELSE NilMap]

\* if event.F == "" { event.F = contexts[i].F }
FillScalar_overwrite(value, zero, contextValue) ==
  IF contextValue # zero THEN contextValue ELSE value

FillScalar(value, zero, contextValue) ==
  IF value = zero THEN contextValue ELSE value

\* event.F = append(event.F, contexts[i].F...)
AppendList_ifEmpty(list, contextList) ==
  IF list = <<>> THEN contextList ELSE list

AppendList(list, contextList) == list \o contextList

\* for k, v := range contexts[i].Extra: the entry is added when the event has
\* no such key, the map being made when it is nil
MergeExtra_overwrite(extra, contextExtra) ==
  Map(extra.isNil /\ DOMAIN contextExtra.m = {},
      [k \in DOMAIN extra.m \cup DOMAIN contextExtra.m |->
         IF k \in DOMAIN contextExtra.m THEN contextExtra.m[k] ELSE extra.m[k]])

MergeExtra(extra, contextExtra) ==
  Map(extra.isNil /\ DOMAIN contextExtra.m = {},
      [k \in DOMAIN extra.m \cup DOMAIN contextExtra.m |->
         IF k \in DOMAIN extra.m THEN extra.m[k] ELSE contextExtra.m[k]])

\* one iteration of the loop of Event.Fill
FillContext(event, context) ==
  [f \in DOMAIN event |->
     IF f \in ScalarFields THEN FillScalar(event[f], Zero(f), context[f])
     ELSE IF f \in ListFields THEN AppendList(event[f], context[f])
     ELSE MergeExtra(event[f], context[f])]

\* for i := len(contexts) - 1; i >= 0; i--
RECURSIVE FillFrom(_, _, _)
FillFrom(event, contexts, i) ==
  IF i = 0 THEN event
  ELSE FillFrom(FillContext(event, contexts[i]), contexts, i - 1)

\* Event.Fill(contexts...)
FillAll(event, contexts) == FillFrom(event, contexts, Len(contexts))

\* the value party w (1 the event, 2 ctxA, 3 ctxB) sets a scalar field to
Val(f, w) ==
  IF f = "Timestamp" THEN CallerTime + w
  ELSE IF f = "Level" THEN 10 * w
  ELSE <<"e", "a", "b">>[w]

\* which of the event, ctxA and ctxB set a field
Setters == SUBSET {1, 2, 3}

\* the event (w = 1) or context (w = 2, 3) in which field f is set as sf
\* says and field g as sg says
WithScalars(w, f, sf, g, sg) ==
  [ZeroEvent EXCEPT ![f] = IF w \in sf THEN Val(f, w) ELSE Zero(f),
                    ![g] = IF w \in sg THEN Val(g, w) ELSE Zero(g)]

\* the field after f, in a fixed cyclic order
NextField(f) ==
  LET order == <<"Message", "EventID", "Project", "Timestamp", "Level",
                 "Logger", "Platform", "Culprit", "ServerName">>
      i == CHOOSE j \in 1..Len(order) : order[j] = f
  IN order[(i % Len(order)) + 1]

FillInput(event, contexts) ==
  [fn |-> "fill", event |-> event, contexts |-> contexts]

\* Fill(ctxA, ctxB) on events and contexts that set two scalar fields in
\* every combination
ScalarInputs ==
  { FillInput(WithScalars(1, f, sf, NextField(f), sg),
              << WithScalars(2, f, sf, NextField(f), sg),
                 WithScalars(3, f, sf, NextField(f), sg) >>) :
      f \in ScalarFields, sf \in Setters, sg \in Setters }

\* the lists of the event, of ctxA and of ctxB: none, one or two entries, an
\* entry of a context being one the event has as well
Lists ==
  << {<<>>, <<"e1">>, <<"e1", "e2">>}, {<<>>, <<"a1">>, <<"e1", "a1">>},
     {<<>>, <<"b1">>, <<"a1", "e1">>} >>

ListInputs ==
  { FillInput([ZeroEvent EXCEPT ![f] = le],
              << [ZeroEvent EXCEPT ![f] = la],
                 [ZeroEvent EXCEPT ![f] = lb] >>) :
      f \in ListFields, le \in Lists[1], la \in Lists[2], lb \in Lists[3] }

\* the extra maps of party w: nil, empty, or some of the keys "k1", "k2" with
\* a value of its own
Extras(w) ==
  {NilMap} \cup
  { Map(FALSE, [k \in ks |-> <<"e", "a", "b">>[w]]) : ks \in SUBSET {"k1", "k2"} }

ExtraInputs ==
  { FillInput([ZeroEvent EXCEPT !.Extra = xe],
              << [ZeroEvent EXCEPT !.Extra = xa],
                 [ZeroEvent EXCEPT !.Extra = xb] >>) :
      xe \in Extras(1), xa \in Extras(2), xb \in Extras(3) }

\* event.Fill(ctxA, ctxB)
FillCall ==
  /\ input.fn = "fill"
  /\ ~output.done
  /\ output' = [done |-> TRUE, event |-> FillAll(input.event, input.contexts)]
  /\ UNCHANGED <<input, clientVars>>

FillNext == FillCall

FillSpec ==
  FunctionInit(ScalarInputs \cup ListInputs \cup ExtraInputs)
    /\ [][FillNext]_vars

(* -------------------- tags of the Packet client (maps) ----------------- *)
\* for k, v := range over { tags[k] = v } on a map that holds base
MergeTags_keepFirst(base, over) ==
  [k \in DOMAIN base \cup DOMAIN over |->
     IF k \in DOMAIN base THEN base[k] ELSE over[k]]

MergeTags(base, over) ==
  [k \in DOMAIN base \cup DOMAIN over |->
     IF k \in DOMAIN over THEN over[k] ELSE base[k]]

\* Packet.Init, the message test and the tags: parentTags, then the packet's
\* own tags over them
PacketInit(message, packetTags, parentTags) ==
  IF message = "" THEN [err |-> ErrEmptyMessage, Tags |-> packetTags]
  ELSE [err |-> Nil, Tags |-> MergeTags(parentTags, packetTags)]

\* Client.Capture of the Packet client up to Init: the client's tags, the
\* capture tags over them, then packet.Init(projectID, tags)
PacketCapture(message, packetTags, captureTags, clientTags) ==
  PacketInit(message, packetTags, MergeTags(clientTags, captureTags))

\* the tag maps of party w (1 the packet, 2 the capture, 3 the client): some
\* of the keys "k1", "k2" with a value of its own
TagMaps(w) ==
  { [k \in ks |-> <<"packet", "capture", "client">>[w]] :
      ks \in SUBSET {"k1", "k2"} }

PacketInputs ==
  { [fn |-> "packet", message |-> m, packetTags |-> pt, captureTags |-> ct,
     clientTags |-> lt] :
      m \in {"", "m"}, pt \in TagMaps(1), ct \in TagMaps(2), lt \in TagMaps(3) }

\* client.Capture(packet, captureTags), to the return of packet.Init
PacketCaptureCall ==
  /\ input.fn = "packet"
  /\ ~output.done
  /\ LET r == PacketCapture(input.message, input.packetTags,
                            input.captureTags, input.clientTags)
     IN output' = [done |-> TRUE, err |-> r.err, Tags |-> r.Tags]
  /\ UNCHANGED <<input, clientVars>>

PacketNext == PacketCaptureCall

PacketSpec == FunctionInit(PacketInputs) /\ [][PacketNext]_vars

(* ------------------ tags of the EventInfo client (lists) --------------- *)
Tag(key, value) == [Key |-> key, Value |-> value]

\* the orders in which a range loop can visit the keys of a map
Orders(m) ==
  {o \in [1..Cardinality(DOMAIN m) -> DOMAIN m] :
     \A i, j \in DOMAIN o : o[i] = o[j] => i = j}

\* EventInfo.AddTags: one Tag appended for each entry of the map, in the
\* order the range loop visits them
AddTags_replace(tags, m, order) ==
  SelectSeq(tags, LAMBDA t : t.Key \notin DOMAIN m)
    \o [i \in 1..Len(order) |-> Tag(order[i], m[order[i]])]

AddTags(tags, m, order) ==
  tags \o [i \in 1..Len(order) |-> Tag(order[i], m[order[i]])]

\* Tag.MarshalJSON: the tokens of the array [key, value]
TagJSON(tag) == <<"[", tag.Key, ",", tag.Value, "]">>

\* the tokens json.Marshal writes for a list, its elements separated by ","
RECURSIVE JoinJSON(_)
JoinJSON(tags) ==
  IF tags = <<>> THEN <<>>
  ELSE IF Len(tags) = 1 THEN TagJSON(tags[1])
  ELSE TagJSON(tags[1]) \o <<",">> \o JoinJSON(Tail(tags))

\* the value of "tags" in EventInfo.JSON; omitempty leaves an empty list out
TagsJSON(tags) ==
  IF tags = <<>> THEN <<>> ELSE <<"[">> \o JoinJSON(tags) \o <<"]">>

\* the tags an event carries before Capture: none, one, or two with the same
\* or with different keys
EventTags ==
  { <<>>, <<Tag("k1", "e")>>, <<Tag("k1", "e"), Tag("k2", "e")>>,
    <<Tag("k2", "e"), Tag("k1", "e")>>, <<Tag("k1", "e"), Tag("k1", "f")>> }

TagsInputs ==
  { [fn |-> "tags", eventTags |-> et, captureTags |-> ct, clientTags |-> lt] :
      et \in EventTags, ct \in TagMaps(2), lt \in TagMaps(3) }

\* client.Capture(eventInfo, captureTags), the two AddTags calls, and the
\* JSON of the tags
AddTagsCall(captureOrder, clientOrder) ==
  /\ input.fn = "tags"
  /\ ~output.done
  /\ captureOrder \in Orders(input.captureTags)
  /\ clientOrder \in Orders(input.clientTags)
  /\ LET tags == AddTags(AddTags(input.eventTags, input.captureTags,
                                 captureOrder),
                         input.clientTags, clientOrder)
     IN output' = [done |-> TRUE, Tags |-> tags, json |-> TagsJSON(tags)]
  /\ UNCHANGED <<input, clientVars>>

TagsNext ==
  \E captureOrder, clientOrder \in SeqsUpTo({"k1", "k2"}, 2) :
    AddTagsCall(captureOrder, clientOrder)

TagsSpec == FunctionInit(TagsInputs) /\ [][TagsNext]_vars

(* -------------------- serializedPacket / Event.serialize --------------- *)
\* the raw JSON of an event: what it says and how many bytes it has
JSON(doc, len) == [doc |-> doc, len |-> len]

\* zlib.NewWriterLevel(w, zlib.BestCompression) and base64.StdEncoding, as
\* the codecs of the standard library: what was encoded, and the readers
\* that undo them (Invalid for a stream of another kind)
Invalid == [enc |-> "invalid"]
Zlib(data) == [enc |-> "zlib", level |-> "BestCompression", data |-> data]
Base64(data) == [enc |-> "base64", data |-> data]
Unzlib(stream) == IF stream.enc = "zlib" THEN stream.data ELSE Invalid
DecodeBase64(text) == IF text.enc = "base64" THEN text.data ELSE Invalid

\* len(packetJSON) > 1000
Deflated_from1000(len) == len >= 1000

Deflated(len) == len > 1000

\* serializedPacket, Event.serialize: the body and its content type
serializedPacket(packetJSON) ==
  IF Deflated(packetJSON.len)
  THEN [body |-> Base64(Zlib(packetJSON)),
        contentType |-> "application/octet-stream"]
  ELSE [body |-> packetJSON, contentType |-> "application/json"]

\* raw JSON of lengths on both sides of the threshold
JSONLengths == {2, 3, 500, 998, 999, 1000, 1001, 1002, 1003, 2000, 65536}

SerializeInputs ==
  { [fn |-> "serialize", packetJSON |-> JSON(doc, len)] :
      doc \in {"a", "b", "c"}, len \in JSONLengths }

SerializeCall ==
  /\ input.fn = "serialize"
  /\ ~output.done
  /\ LET r == serializedPacket(input.packetJSON)
     IN output' = [done |-> TRUE, body |-> r.body,
                   contentType |-> r.contentType]
  /\ UNCHANGED <<input, clientVars>>

SerializeNext == SerializeCall

SerializeSpec == FunctionInit(SerializeInputs) /\ [][SerializeNext]_vars

(* --------------------------- HTTPTransport.Send ------------------------ *)
\* a url string url.Parse rejects (the bracket of the host is not closed)
MalformedURL == URL("http", "[::1", <<>>)

\* http.NewRequest("POST", url, body): nil, with an error, when the url does
\* not parse
NewRequestFails(u) == u = MalformedURL

\* what t.http.Do returns: a transport error, or a response with a status
Response(err, status) == [err |-> err, status |-> status]
Responses ==
  {Response(TRUE, 0)} \cup
  { Response(FALSE, s) :
      s \in {200, 201, 204, 301, 400, 401, 403, 404, 429, 500, 503} }

\* HTTPTransport.Send: what it returns, how many times it calls t.http.Do,
\* and whether it panics. The error of http.NewRequest is dropped and the
\* request used at once, a nil pointer dereference when the url is malformed
Send(u, response) ==
  IF u = EmptyURL THEN [ret |-> Nil, requests |-> 0, panics |-> FALSE]
  ELSE IF NewRequestFails(u)
  THEN [ret |-> "none", requests |-> 0, panics |-> TRUE]
  ELSE IF response.err
  THEN [ret |-> "transport error", requests |-> 1, panics |-> FALSE]
  ELSE IF response.status # 200
  THEN [ret |-> ErrHTTP, requests |-> 1, panics |-> FALSE]
  ELSE [ret |-> Nil, requests |-> 1, panics |-> FALSE]

SendInputs ==
  { [fn |-> "send", url |-> u, response |-> r] :
      u \in { EmptyURL, MalformedURL,
              URL("https", "example.com", StorePath(<<"sentry", "1">>, "1")),
              URL("http", "example.com", <<>>) },
      r \in Responses }

SendCallDirect ==
  /\ input.fn = "send"
  /\ ~output.done
  /\ LET r == Send(input.url, input.response)
     IN output' = [done |-> TRUE, ret |-> r.ret, requests |-> r.requests,
                   panics |-> r.panics]
  /\ UNCHANGED <<input, clientVars>>

SendNext == SendCallDirect

SendSpec == FunctionInit(SendInputs) /\ [][SendNext]_vars

(* ------------------------- Event.JSON / EventInfo.JSON ----------------- *)
\* an attached interface: its Class(), what it marshals to, and whether
\* json.Marshal accepts it (a MarshalJSON method may return an error)
ClassedInterface(class, body, marshals) ==
  [class |-> class, body |-> body, marshals |-> marshals]

\* the classes of the attached interfaces, in the order json.Marshal writes
\* the keys of a map (sorted)
Classes == <<"sentry.interfaces.Exception", "sentry.interfaces.Message">>

\* the tokens of a JSON object with the given <<key, value>> pairs
RECURSIVE MarshalPairs(_)
MarshalPairs(pairs) ==
  IF pairs = <<>> THEN <<>>
  ELSE IF Len(pairs) = 1 THEN <<pairs[1][1], ":", pairs[1][2]>>
  ELSE <<pairs[1][1], ":", pairs[1][2], ",">> \o MarshalPairs(Tail(pairs))

MarshalObject(pairs) == <<"{">> \o MarshalPairs(pairs) \o <<"}">>

\* json.Marshal(event): the fields of the struct in declaration order,
\* "extra" left out when empty (omitempty), Interfaces never written
\* (json:"-"); nil when a value of Extra is one encoding/json refuses
\* (a NaN, a channel, a func)
MarshalEvent(event) ==
  IF event.Extra = "unsupported" THEN <<>>
  ELSE MarshalObject(
         << <<"message", event.Message>>, <<"event_id", "id">>,
            <<"project", "1">>, <<"timestamp", "t">>, <<"level", "error">>,
            <<"logger", "root">> >>
         \o (IF event.Extra = "empty" THEN <<>>
             ELSE << <<"extra", event.Extra>> >>))

\* the loop interfaces[inter.Class()] = inter: the map after the first i
\* interfaces
RECURSIVE InterfaceMap(_, _)
InterfaceMap(interfaces, i) ==
  IF i = 0 THEN <<>>
  ELSE LET m == InterfaceMap(interfaces, i - 1)
           inter == interfaces[i]
       IN [c \in DOMAIN m \cup {inter.class} |->
             IF c = inter.class THEN inter ELSE m[c]]

\* json.Marshal(interfaces): the keys of the map in sorted order; nil when
\* one of the values does not marshal
MarshalInterfaces(m) ==
  IF \E c \in DOMAIN m : ~m[c].marshals THEN <<>>
  ELSE LET keys == SelectSeq(Classes, LAMBDA c : c \in DOMAIN m)
       IN MarshalObject([i \in 1..Len(keys) |-> <<keys[i], m[keys[i]].body>>])

\* Event.JSON: both errors of json.Marshal are dropped; the closing brace of
\* the event is overwritten with a comma and the interfaces appended without
\* their opening brace. eventJSON[len-1] panics on a nil eventJSON and
\* interfaceJSON[1:] on a nil interfaceJSON
EventJSON(event) ==
  LET eventJSON == MarshalEvent(event)
      interfaces == InterfaceMap(event.Interfaces, Len(event.Interfaces))
      interfaceJSON == MarshalInterfaces(interfaces)
  IN IF DOMAIN interfaces = {} THEN [json |-> eventJSON, panics |-> FALSE]
     ELSE IF eventJSON = <<>> \/ interfaceJSON = <<>>
     THEN [json |-> <<>>, panics |-> TRUE]
     ELSE [json |-> [eventJSON EXCEPT ![Len(eventJSON)] = ","]
                      \o Tail(interfaceJSON),
           panics |-> FALSE]

ClassedInterfaces ==
  { ClassedInterface(Classes[i], b, TRUE) : i \in 1..2, b \in {"b1", "b2"} }
    \cup {ClassedInterface(Classes[1], "b3", FALSE)}

JSONInputs ==
  { [fn |-> "json",
     event |-> [Message |-> "m", Extra |-> x, Interfaces |-> is]] :
      x \in {"empty", "x", "unsupported"},
      is \in SeqsUpTo(ClassedInterfaces, MaxInterfaces) }

EventJSONCall ==
  /\ input.fn = "json"
  /\ ~output.done
  /\ LET r == EventJSON(input.event)
     IN output' = [done |-> TRUE, json |-> r.json, panics |-> r.panics]
  /\ UNCHANGED <<input, clientVars>>

JSONNext == EventJSONCall

JSONSpec == FunctionInit(JSONInputs) /\ [][JSONNext]_vars

(* --------------------------- Tags.UnmarshalJSON ------------------------ *)
\* json.Marshal of a tag list that is a value of its own (no omitempty)
MarshalTags(tags) == <<"[">> \o JoinJSON(tags) \o <<"]">>

\* json.Unmarshal(data, &tags) into []Tag, each element through
\* Tag.UnmarshalJSON: the arrays of the list in order
UnmarshalTagList(data) ==
  [i \in 1..(Len(data) \div 6) |-> Tag(data[6 * i - 3], data[6 * i - 1])]

\* json.Unmarshal(data, &tagMap) into map[string]string: of two pairs with
\* the same key the later one stays
UnmarshalTagMap(data) ==
  LET n == (Len(data) - 1) \div 4
      keys == {data[4 * i - 2] : i \in 1..n}
      last(k) == CHOOSE i \in 1..n :
                   /\ data[4 * i - 2] = k
                   /\ \A j \in 1..n : data[4 * j - 2] = k => j <= i
  IN [k \in keys |-> data[4 * last(k)]]

\* Tags.UnmarshalJSON: the switch on data[0]; the object form is decoded
\* into a map and one Tag appended per entry in the order the range loop
\* visits the map, which Go leaves unspecified
UnmarshalTags(data, order) ==
  IF data[1] = "[" THEN [err |-> Nil, tags |-> UnmarshalTagList(data)]
  ELSE IF data[1] = "{"
  THEN LET tagMap == UnmarshalTagMap(data)
       IN [err |-> Nil,
           tags |-> [i \in 1..Len(order) |-> Tag(order[i], tagMap[order[i]])]]
  ELSE [err |-> "raven: unable to unmarshal JSON", tags |-> <<>>]

\* the tag lists and objects of the tests: keys foo and bar, up to three
\* pairs, keys repeated or not
WrittenTags ==
  SeqsUpTo({Tag(k, v) : k \in {"foo", "bar"}, v \in {"bar", "baz"}}, 3)

UnmarshalInputs ==
  { [fn |-> "unmarshal", form |-> "list", written |-> w,
     data |-> MarshalTags(w)] : w \in WrittenTags }
  \cup
  { [fn |-> "unmarshal", form |-> "object", written |-> w,
     data |-> MarshalObject([i \in 1..Len(w) |-> <<w[i].Key, w[i].Value>>])] :
      w \in WrittenTags }
  \cup
  { [fn |-> "unmarshal", form |-> "other", written |-> <<>>,
     data |-> <<"null">>] }

\* json.Unmarshal(data, &tags) on a Tags value
UnmarshalTagsCall(order) ==
  /\ input.fn = "unmarshal"
  /\ ~output.done
  /\ order \in (IF input.form = "object"
                THEN Orders(UnmarshalTagMap(input.data)) ELSE {<<>>})
  /\ LET r == UnmarshalTags(input.data, order)
     IN output' = [done |-> TRUE, err |-> r.err, tags |-> r.tags]
  /\ UNCHANGED <<input, clientVars>>

UnmarshalNext ==
  \E order \in SeqsUpTo({"foo", "bar"}, 2) : UnmarshalTagsCall(order)

UnmarshalSpec == FunctionInit(UnmarshalInputs) /\ [][UnmarshalNext]_vars

(* ------------------------ uuid / FormatEventID ------------------------- *)
\* FormatEventID and FormatUUID:
\* id[:8] + "-" + id[8:12] + "-" + id[12:16] + "-" + id[16:20] + "-" + id[20:]
FormatEventID(id) ==
  SubSeq(id, 1, 8) \o <<"-">> \o SubSeq(id, 9, 12) \o <<"-">>
    \o SubSeq(id, 13, 16) \o <<"-">> \o SubSeq(id, 17, 20) \o <<"-">>
    \o SubSeq(id, 21, Len(id))

\* reads of rand.Reader that cover every value of the 7th and the 9th byte's
\* high bits
UUIDReads ==
  { [i \in 1..16 |-> (i * a + b) % 256] :
      a \in {0, 1, 37, 255}, b \in {0, 11, 63, 64, 127, 128, 191, 255} }

\* ids a caller passes to FormatEventID: 32 characters, hexadecimal or not
FormatTexts ==
  { [i \in 1..32 |-> <<"0", "f", "-", "Z", "g">>[((i * a + b) % 5) + 1]] :
      a \in 0..4, b \in 0..4 }

UUIDInputs ==
  { [fn |-> "uuid", read |-> r, readErr |-> e] :
      r \in UUIDReads, e \in BOOLEAN }
  \cup { [fn |-> "format", id |-> t] : t \in FormatTexts }

\* uuid(): "", err when the read fails, the id otherwise
uuidCall ==
  /\ input.fn = "uuid"
  /\ output = NoOutput
  /\ output' = IF input.readErr
               THEN [done |-> TRUE, err |-> "read error", id |-> <<>>]
               ELSE [done |-> FALSE, err |-> Nil, id |-> uuidText(input.read)]
  /\ UNCHANGED <<input, clientVars>>

\* FormatEventID(id) of a generated id or of the caller's text
FormatEventIDCall ==
  /\ ~output.done
  /\ \/ input.fn = "format"
     \/ input.fn = "uuid" /\ output # NoOutput
  /\ LET id == IF input.fn = "format" THEN input.id ELSE output.id
     IN output' = [done |-> TRUE, err |-> Nil, id |-> id,
                   formatted |-> FormatEventID(id)]
  /\ UNCHANGED <<input, clientVars>>

UUIDNext == uuidCall \/ FormatEventIDCall

UUIDSpec == FunctionInit(UUIDInputs) /\ [][UUIDNext]_vars

(* ------------- the attribute-based client: NewPacket, Capture ---------- *)
\* an attribute passed to NewClient or Capture: an Extra map, a Logger, a
\* Tag, or a value of a type MergeAttributes does not know
Attribute(type, s, m) == [type |-> type, s |-> s, m |-> m]

\* &packet{Message: message, EventID: uuid4, Project: projectID,
\*         ch: make(chan error, 1)}: every other field zero, Extra a nil map
AttrPacket(message, eventID, project) ==
  [Message |-> message, EventID |-> eventID, Project |-> project,
   Logger |-> "", Tags |-> <<>>, Extra |-> NilMap]

\* packet.MergeAttributes: the type switch on each attribute in turn; an
\* assignment packet.Extra[tag] = val panics while Extra is a nil map, and
\* an attribute of an unknown type ends the merge with an error
RECURSIVE MergeAttributes(_, _)
MergeAttributes(packet, attr) ==
  IF attr = <<>> THEN [packet |-> packet, err |-> Nil, panics |-> FALSE]
  ELSE LET a == Head(attr)
       IN IF a.type = "Logger"
          THEN MergeAttributes([packet EXCEPT !.Logger = a.s], Tail(attr))
          ELSE IF a.type = "Tag"
          THEN MergeAttributes(
                 [packet EXCEPT !.Tags = Append(@, Tag(a.s, a.s))], Tail(attr))
          ELSE IF a.type = "Extra"
          THEN IF DOMAIN a.m = {} THEN MergeAttributes(packet, Tail(attr))
               ELSE IF packet.Extra.isNil
               THEN [packet |-> packet, err |-> Nil, panics |-> TRUE]
               ELSE MergeAttributes(
                      [packet EXCEPT !.Extra =
                         Map(FALSE,
                             [k \in DOMAIN @.m \cup DOMAIN a.m |->
                                IF k \in DOMAIN a.m THEN a.m[k] ELSE @.m[k]])],
                      Tail(attr))
          ELSE [packet |-> packet, err |-> "raven: bad interface",
                panics |-> FALSE]

\* Client.NewPacket: nil and an error for an empty message, a failed uuid()
\* or an unconfigured client; otherwise the packet with the client's and
\* then the call's attributes merged (the error of MergeAttributes is not
\* looked at) and the defaults filled
NewPacket(message, readErr, project, clientAttributes, attr) ==
  LET none == [isNil |-> TRUE, panics |-> FALSE,
               packet |-> AttrPacket("", "", "")]
  IN IF message = "" THEN [err |-> ErrNoMessage] @@ none
     ELSE IF readErr THEN [err |-> "read error"] @@ none
     ELSE IF project = "" THEN [err |-> ErrClientNotConfigured] @@ none
     ELSE LET first == MergeAttributes(AttrPacket(message, uuid, project),
                                       clientAttributes)
              second == MergeAttributes(first.packet, attr)
          IN IF first.panics \/ second.panics
             THEN [err |-> Nil, isNil |-> FALSE, panics |-> TRUE,
                   packet |-> second.packet]
             ELSE [err |-> Nil, isNil |-> FALSE, panics |-> FALSE,
                   packet |-> [second.packet EXCEPT
                                 !.Logger = IF @ = "" THEN "root" ELSE @]]

\* Client.Capture of the attribute-based client on a non-nil client: on an
\* error of NewPacket it writes to packet.ch, with packet nil; otherwise the
\* select that enqueues the packet or drops it
AttrCapture(message, readErr, project, clientAttributes, attr, full) ==
  LET r == NewPacket(message, readErr, project, clientAttributes, attr)
      noReturn == [panics |-> TRUE, eventID |-> "", chIsNil |-> TRUE,
                   ch |-> <<>>, enqueued |-> FALSE, newPacket |-> r]
  IN IF r.panics THEN noReturn
     ELSE IF r.err # Nil
     THEN IF r.isNil THEN noReturn
          ELSE [panics |-> FALSE, eventID |-> "", chIsNil |-> TRUE,
                ch |-> <<r.err>>, enqueued |-> FALSE, newPacket |-> r]
     ELSE [panics |-> FALSE, eventID |-> r.packet.EventID, chIsNil |-> FALSE,
           ch |-> IF full THEN <<ErrEventDropped>> ELSE <<>>,
           enqueued |-> ~full, newPacket |-> r]

Attributes ==
  { Attribute("Extra", "", m) :
      m \in {<<>>} \cup {[k \in ks |-> v] : ks \in {{"k1"}, {"k1", "k2"}},
                                             v \in {"a", "b"}} }
    \cup { Attribute("Logger", "l", <<>>), Attribute("Tag", "t", <<>>),
           Attribute("int", "", <<>>) }

AttrInputs ==
  { [fn |-> "capture", message |-> msg, readErr |-> e, projectID |-> p,
     clientAttributes |-> ca, attr |-> at, full |-> f] :
      msg \in {"", "m"}, e \in BOOLEAN, p \in {"", "1"},
      ca \in SeqsUpTo({Attribute("Extra", "", [k \in {"k1"} |-> "c"]),
                       Attribute("Logger", "cl", <<>>)}, 1),
      at \in SeqsUpTo(Attributes, 2), f \in BOOLEAN }

AttrCaptureCall ==
  /\ input.fn = "capture"
  /\ ~output.done
  /\ output' = [done |-> TRUE]
                 @@ AttrCapture(input.message, input.readErr, input.projectID,
                                input.clientAttributes, input.attr, input.full)
  /\ UNCHANGED <<input, clientVars>>

AttrNext == AttrCaptureCall

AttrSpec == FunctionInit(AttrInputs) /\ [][AttrNext]_vars

(* ------------------- the synchronous client: Client.Send --------------- *)
\* Client.Send of the synchronous Packet client: packet.Init is called as a
\* statement, its error not looked at, and Transport.Send is called with
\* the packet whatever Init returned
ClientSend(message, packetTags, clientTags, u, response) ==
  LET init == PacketInit(message, packetTags, clientTags)
      sent == Send(u, response)
  IN [initErr |-> init.err, transportCalls |-> 1, ret |-> sent.ret,
      requests |-> sent.requests]

SyncInputs ==
  { [fn |-> "syncSend", message |-> m, packetTags |-> pt, clientTags |-> lt,
     url |-> u, response |-> r] :
      m \in {"", "m"}, pt \in TagMaps(1), lt \in {<<>>},
      u \in {EmptyURL, URL("https", "example.com", StorePath(<<>>, "1"))},
      r \in Responses }

ClientSendCall ==
  /\ input.fn = "syncSend"
  /\ ~output.done
  /\ output' = [done |-> TRUE]
                 @@ ClientSend(input.message, input.packetTags,
                               input.clientTags, input.url, input.response)
  /\ UNCHANGED <<input, clientVars>>

SyncNext == ClientSendCall

SyncSpec == FunctionInit(SyncInputs) /\ [][SyncNext]_vars

(* ------------------------------- claims ------------------------------- *)
Range(s) == {s[i] : i \in 1..Len(s)}
\* call k is a Capture call on a client with a non-empty message
Valid(k) == arg[k].client = "client" /\ arg[k].message # ""
\* call k has run the select of Capture
Attempted(k) == Valid(k) /\ finalID[k] # ""
\* call k took the default case of the select
Dropped(k) == Attempted(k) /\ k \notin Range(enqueued)
SentCalls == {sendLog[i].call : i \in 1..Len(sendLog)}
QueuedCalls == {queue[i].call : i \in 1..Len(queue)}
DropCalls(k) == {i \in 1..Len(dropped) : dropped[i].call = k}

\* C1, the step: a valid Capture that reaches the select while the queue holds
\* MaxQueueBuffer events leaves the queue as it is, calls the DropHandler (when
\* one is set) once with its event and writes ErrEventDropped to its channel.
C1_DropStep(k) ==
  (pc[k] = "cfg" /\ pc'[k] # "cfg" /\ merged[k].Message # ""
     /\ Len(queue) = MaxQueueBuffer)
  => /\ queue' = queue
     /\ enqueued' = enqueued
     /\ ch'[k] = <<ErrEventDropped>>
     /\ IF DropHandler
        THEN /\ Len(dropped') = Len(dropped) + 1
             /\ dropped'[Len(dropped')].call = k
             /\ dropped'[Len(dropped')].event.EventID = finalID'[k]
             /\ dropped'[Len(dropped')].event.Message = arg[k].message
        ELSE dropped' = dropped

\* C1, afterwards: a dropped event is never in the queue, never held by the
\* worker and never passed to Transport.Send; its channel holds the sentinel
\* and the DropHandler was called exactly once for it.
C1_DroppedState ==
  \A k \in Calls :
    Dropped(k) =>
      /\ ch[k] = <<ErrEventDropped>>
      /\ k \notin QueuedCalls
      /\ cur.call # k
      /\ k \notin SentCalls
      /\ Cardinality(DropCalls(k)) = IF DropHandler THEN 1 ELSE 0

\* C1: When Capture is called while the queue already holds MaxQueueBuffer
\* events, the event is not enqueued, the DropHandler (if set) is called
\* exactly once with that event before Capture returns, ErrEventDropped is
\* written to the call's result channel, and the event is never passed to
\* Transport.Send.
C1_DropOnFullQueue ==
  /\ [][\A k \in Calls : C1_DropStep(k)]_vars
  /\ []C1_DroppedState

C1_Witness ==
  \E k \in Calls :
    /\ Dropped(k)
    /\ DropHandler
    /\ Len(queue) = MaxQueueBuffer
    /\ ch[k] = <<ErrEventDropped>>
    /\ Cardinality(DropCalls(k)) = 1

\* C2: Capture never waits for the worker.  Whatever the worker does (also
\* inside Transport.Send) and however full the queue is, a Capture call that
\* has read the config can take its last step at once, and a returned call
\* with a valid message has the capacity-1 channel it made.
C2_CaptureNeverWaits ==
  \A k \in Calls :
    /\ pc[k] = "cfg" =>
         ENABLED (EventInfoCaptureEnqueue(k) \/ EventCaptureEnqueue(k))
    /\ (pc[k] = "done" /\ Valid(k)) =>
         /\ ret[k].ch = "ch"
         /\ Len(ch[k]) <= ChanCap
         /\ (k \in Range(enqueued) \/ ch[k] = <<ErrEventDropped>>)

\* a call has returned although the queue is still full and the worker has
\* not completed any delivery
C2_Witness ==
  \E k \in Calls :
    /\ pc[k] = "done"
    /\ Dropped(k)
    /\ ret[k].ch = "ch"
    /\ Len(queue) = MaxQueueBuffer
    /\ resultLog = <<>>

\* C3, safety: the worker writes to an event's channel once, and the value is
\* the one Transport.Send returned for that event.
C3_ResultIsSendResult ==
  /\ \A i, j \in 1..Len(resultLog) : resultLog[i] = resultLog[j] => i = j
  /\ \A k \in Range(resultLog) :
       /\ k \in Range(enqueued)
       /\ sendRet[k] \in {Nil, ErrHTTP}
       /\ ch[k] = <<sendRet[k]>>
  /\ \A k \in Calls : k \in Range(enqueued) => Len(ch[k]) <= 1
  /\ \A k \in Range(enqueued) \ Range(resultLog) : ch[k] = <<>>

\* C3: Every event that Capture enqueues is eventually dequeued by the worker
\* and, every Transport.Send call returning, the worker writes exactly one
\* value to that event's result channel: the value Transport.Send returned for
\* that event.  (A written result stays written, so "again and again every
\* enqueued event has been sent and has its result" says that each one is
\* eventually delivered.)
C3_EnqueuedIsDelivered ==
  /\ []C3_ResultIsSendResult
  /\ []<>(Range(enqueued) \subseteq (SentCalls \cap Range(resultLog)))

C3_Witness ==
  \E k, j \in Calls :
    /\ k \in Range(resultLog) /\ ch[k] = <<ErrHTTP>> /\ sendRet[k] = ErrHTTP
    /\ j \in Range(resultLog) /\ ch[j] = <<Nil>> /\ sendRet[j] = Nil

AttemptedCalls == {k \in Calls : Attempted(k)}
DroppedCalls == {k \in Calls : Dropped(k)}
\* the worker has not taken any event out of the queue yet
NothingDequeued == Len(enqueued) = Len(queue)

\* C4 as stated, for a worker that is slow inside Transport.Send: once
\* MaxQueueBuffer + 1 events have been submitted and no Send call has
\* returned yet, exactly one event has been dropped (and the DropHandler, when
\* set, was called once).
C4_Original ==
  (Cardinality(AttemptedCalls) = MaxQueueBuffer + 1 /\ resultLog = <<>>)
  => /\ Cardinality(DroppedCalls) = 1
     /\ DropHandler => Len(dropped) = 1

\* C4 amended, the step: when MaxQueueBuffer events have been submitted and
\* the worker has dequeued none of them, the next event submitted is dropped:
\* the DropHandler (when set) is called for it and ErrEventDropped is on its
\* channel; the events before it are all in the queue.
C4_Step(k) ==
  (pc[k] = "cfg" /\ pc'[k] # "cfg" /\ merged[k].Message # ""
     /\ NothingDequeued /\ Cardinality(AttemptedCalls) = MaxQueueBuffer)
  => /\ AttemptedCalls = QueuedCalls
     /\ queue' = queue
     /\ ch'[k] = <<ErrEventDropped>>
     /\ \A j \in AttemptedCalls : ch'[j] = <<>>
     /\ Len(dropped') = IF DropHandler THEN 1 ELSE 0
     /\ \A i \in 1..Len(dropped') : dropped'[i].call = k

\* C4 amended, afterwards: with MaxQueueBuffer + 1 events submitted and none
\* dequeued, exactly one was dropped and the DropHandler was called once.
C4_State ==
  (Cardinality(AttemptedCalls) = MaxQueueBuffer + 1 /\ NothingDequeued)
  => /\ Cardinality(DroppedCalls) = 1
     /\ Cardinality({k \in Calls : ErrEventDropped \in Range(ch[k])}) = 1
     /\ Len(enqueued) = MaxQueueBuffer
     /\ Len(dropped) = IF DropHandler THEN 1 ELSE 0

\* C4 (amended): Given an empty queue of capacity N and a worker that
\* dequeues none of the events before the (N+1)th is submitted, submitting
\* N+1 events through Capture results in exactly one 'dropped' error, on the
\* channel of the (N+1)th event, and in exactly one DropHandler invocation
\* when a DropHandler is set; the channels of the first N events eventually
\* receive the result Transport.Send returned for them.
C4_OneDropWhenNothingDequeued ==
  /\ [][\A k \in Calls : C4_Step(k)]_vars
  /\ []C4_State
  /\ []<>(\A k \in Range(enqueued) :
            sendRet[k] \in {Nil, ErrHTTP} /\ ch[k] = <<sendRet[k]>>)

C4_Witness ==
  \E k \in Calls :
    /\ Cardinality(AttemptedCalls) = MaxQueueBuffer + 1
    /\ DroppedCalls = {k}
    /\ DropHandler /\ Len(dropped) = 1 /\ dropped[1].call = k
    /\ ch[k] = <<ErrEventDropped>>
    /\ Len(resultLog) = MaxQueueBuffer
    /\ \A j \in Range(enqueued) : ch[j] = <<sendRet[j]>>

\* C5: Events are handed to Transport.Send in the order in which they were
\* enqueued, and their results are written in that order: the Send calls and
\* the results written so far are, call for call, the first events enqueued,
\* and the result of an event is written before Send is called for the next.
C5_FIFO ==
  /\ Len(resultLog) <= Len(sendLog)
  /\ Len(sendLog) <= Len(resultLog) + 1
  /\ Len(sendLog) <= Len(enqueued)
  /\ \A i \in 1..Len(sendLog) : sendLog[i].call = enqueued[i]
  /\ \A i \in 1..Len(resultLog) : resultLog[i] = enqueued[i]
  /\ cur # NoQueued => cur.call = enqueued[Len(resultLog) + 1]

\* two events delivered in the order of their enqueues, which is not the
\* order in which their Capture calls started
C5_Witness ==
  /\ Len(resultLog) >= 2
  /\ enqueued[1] > enqueued[2]
  /\ resultLog[1] = enqueued[1] /\ resultLog[2] = enqueued[2]
  /\ sendLog[1].call = enqueued[1] /\ sendLog[2].call = enqueued[2]

\* the events Capture has accepted that have no result yet
Pending == Len(enqueued) - Len(resultLog)

\* C6: In every reachable state the number of events that Capture has
\* accepted and that have not yet received their result is at most
\* MaxQueueBuffer + 1: they are the queue contents, at most MaxQueueBuffer,
\* plus the single event the worker holds.
C6_PendingBounded ==
  /\ Len(queue) <= MaxQueueBuffer
  /\ Pending = Len(queue) + (IF cur = NoQueued THEN 0 ELSE 1)
  /\ Pending <= MaxQueueBuffer + 1

\* the bound is reached, and one more event has been turned away
C6_Witness ==
  /\ Pending = MaxQueueBuffer + 1
  /\ wpc = "sending"
  /\ Cardinality(DroppedCalls) = 1

\* call k is a Capture call on a client with an empty message
EmptyMessageCall(a) == a.client = "client" /\ a.message = ""

\* C7, the steps: no step of a Capture call with an empty message changes the
\* queue, calls the DropHandler or starts a Transport.Send call.
C7_Step(k) ==
  (pc'[k] # pc[k] /\ EmptyMessageCall(arg'[k]))
  => /\ queue' = queue
     /\ enqueued' = enqueued
     /\ dropped' = dropped
     /\ sendLog' = sendLog

\* C7, afterwards: the call has returned the channel it made, the channel
\* holds the error, and the event is not in the queue, not with the worker,
\* not dropped and not sent.
C7_State ==
  \A k \in Calls :
    (pc[k] # "idle" /\ EmptyMessageCall(arg[k])) =>
      /\ pc[k] \in {"cfg", "done"}
      /\ pc[k] = "done" =>
           /\ ret[k] = Ret("", "ch")
           /\ ch[k] = <<IF variant = "EventInfo" THEN ErrEmptyMessage
                                                ELSE ErrNoMessage>>
      /\ k \notin Range(enqueued)
      /\ k \notin QueuedCalls
      /\ cur.call # k
      /\ DropCalls(k) = {}
      /\ k \notin SentCalls
      /\ sendRet[k] = "none"

\* C7: A Capture call whose message is empty is rejected before the queue:
\* the error is written to the result channel that Capture returns, the event
\* is never enqueued, the DropHandler is not called and Transport.Send is
\* never called for it; the call leaves the queue contents as they are.
C7_EmptyMessageRejected ==
  /\ [][\A k \in Calls : C7_Step(k)]_vars
  /\ []C7_State

\* an empty message rejected while the queue is full and a DropHandler is set
C7_Witness ==
  \E k \in Calls :
    /\ pc[k] = "done" /\ EmptyMessageCall(arg[k])
    /\ ch[k] \in {<<ErrEmptyMessage>>, <<ErrNoMessage>>}
    /\ Len(queue) = MaxQueueBuffer
    /\ DropHandler /\ dropped = <<>>

\* C8: Capture on a nil Client is a safe no-op that immediately signals the
\* 'client not configured' error: it does not panic, touches no queue, and
\* the channel it returns already holds that error, so a caller that reads
\* from the returned channel does not block.
C8_NilClientSignalsError ==
  \A k \in Calls :
    (pc[k] # "idle" /\ arg[k].client = "nil") =>
      /\ pc[k] = "done"
      /\ k \notin Range(enqueued)
      /\ ret[k].ch = "ch"
      /\ ch[k] = <<ErrClientNotConfigured>>

\* C9: The event id that Capture returns is the event id of the event it
\* enqueued or dropped: every call that passes validation returns, and the id
\* it returns is the EventID of the finalized event handed to the queue or to
\* the DropHandler, also when the caller's event carries no EventID or is
\* nil.
C9_ReturnedIDIsQueuedID ==
  \A k \in Calls :
    (Valid(k) /\ pc[k] \in {"done", "panic"}) =>
      /\ pc[k] = "done"
      /\ ret[k].eventID = finalID[k]
      /\ k \in Range(enqueued) =>
           \A i \in 1..Len(sendLog) :
             sendLog[i].call = k => sendLog[i].event.EventID = ret[k].eventID
      /\ \A i \in DropCalls(k) : dropped[i].event.EventID = ret[k].eventID

\* C10: In the client that stores url and authHeader in the queued event,
\* the url and auth header passed to Transport.Send for an event are the ones
\* that were current when Capture read the project id for that event (all
\* three read in one shared-lock section), whatever SetDSN does between the
\* enqueue and the dequeue of the event.
C10_SentWithSnapshot ==
  variant = "Event" =>
    /\ \A i \in 1..Len(queue) :
         /\ queue[i].url = snap[queue[i].call].url
         /\ queue[i].authHeader = snap[queue[i].call].authHeader
         /\ queue[i].event.Project = snap[queue[i].call].projectID
    /\ \A i \in 1..Len(sendLog) :
         /\ sendLog[i].url = snap[sendLog[i].call].url
         /\ sendLog[i].authHeader = snap[sendLog[i].call].authHeader
         /\ sendLog[i].event.Project = snap[sendLog[i].call].projectID
    /\ wpc = "sending" =>
         /\ wsend.url = snap[cur.call].url
         /\ wsend.authHeader = snap[cur.call].authHeader

\* an event sent with the config of its Capture call after a SetDSN has
\* replaced url, project id and auth header
C10_Witness ==
  \E i \in 1..Len(sendLog) :
    /\ variant = "Event"
    /\ nSetDSN = 1
    /\ sendLog[i].url = snap[sendLog[i].call].url
    /\ sendLog[i].url # EmptyURL
    /\ url # EmptyURL
    /\ sendLog[i].url # url
    /\ sendLog[i].authHeader # authHeader
    /\ sendLog[i].event.Project # projectID
    /\ sendLog[i].call \in Range(resultLog)

\* the url and auth header SetDSN derives from a DSN with user and password
DerivedFrom(dsn, u, a) ==
  /\ u.scheme = dsn.scheme
  /\ u.host = dsn.host
  /\ u.path = IF dsn.path = <<>> THEN <<>>
              ELSE StorePath(dsn.path, dsn.path[Len(dsn.path)])
  /\ a = AuthHeader(dsn.key, dsn.secret)

\* the last SetDSN call was made with a non-empty DSN and returned no error
LastSetDSNSucceeded == lastSetDSN.err = Nil /\ ~lastSetDSN.dsn.empty

\* C11, the step: when the worker of the EventInfo client starts a Send call,
\* the url and auth header it passes are those of the client at that moment,
\* those derived from the DSN of the last SetDSN call when that call
\* succeeded.
C11_Step ==
  (variant = "EventInfo" /\ Len(sendLog') = Len(sendLog) + 1)
  => LET s == sendLog'[Len(sendLog')]
     IN /\ s.call = cur.call
        /\ s.url = url /\ s.authHeader = authHeader
        /\ LastSetDSNSucceeded => DerivedFrom(lastSetDSN.dsn, s.url, s.authHeader)

\* C11: In the client whose worker reads the config at dequeue time,
\* credential rotation is picked up event by event: if a successful SetDSN(d)
\* completes before the worker's read for event e and no later SetDSN
\* completes before that read, e is sent with the url and auth header derived
\* from d, even though e was captured before the SetDSN.
C11_RotationPickedUp == [][C11_Step]_vars

\* an event captured under the first DSN (its project is the first one) and
\* sent with the url and auth header of the second
C11_Witness ==
  \E i \in 1..Len(sendLog) :
    /\ variant = "EventInfo"
    /\ nSetDSN = 1 /\ LastSetDSNSucceeded
    /\ lastSetDSN.dsn.host = "h2"
    /\ sendLog[i].event.Project = "1"
    /\ sendLog[i].url = URL("https", "h2", <<"sentry", "api", "2", "store", "">>)
    /\ sendLog[i].authHeader = AuthHeader("u2", "p2")
    /\ sendLog[i].call \in Range(resultLog)

\* the project id embedded in a store url .../api/<id>/store/ ("" when the
\* url has no such path)
ProjectOf(u) ==
  IF Len(u.path) >= 4 /\ u.path[Len(u.path) - 3] = "api"
     /\ u.path[Len(u.path) - 1] = "store" /\ u.path[Len(u.path)] = ""
  THEN u.path[Len(u.path) - 2]
  ELSE ""

\* C12: Every event the worker hands to Transport.Send carries a project that
\* matches the connection config it is sent with: the event's Project (filled
\* from the client) equals the project id embedded in the store url passed in
\* the same Send call, in every interleaving of Capture, SetDSN and the
\* worker.
C12_ProjectMatchesURL ==
  \A i \in 1..Len(sendLog) :
    sendLog[i].url # EmptyURL =>
      sendLog[i].event.Project = ProjectOf(sendLog[i].url)

\* C12 in the EventInfo client alone, for clients whose project id was never
\* cleared by a failed SetDSN
C12_EventInfoRace ==
  \A i \in 1..Len(sendLog) :
    (variant = "EventInfo" /\ sendLog[i].url # EmptyURL
       /\ sendLog[i].event.Project # "" /\ ProjectOf(sendLog[i].url) # "")
    => sendLog[i].event.Project = ProjectOf(sendLog[i].url)

\* the Transport.Send calls made for call k
SendCalls(k) == {i \in 1..Len(sendLog) : sendLog[i].call = k}
\* call k was rejected: made on a nil client or with an empty message
Rejected(k) ==
  pc[k] # "idle" /\ (arg[k].client = "nil" \/ arg[k].message = "")

\* C13: No event is retried or delivered twice: Transport.Send is called at
\* most once per Capture call, exactly once for an event that was enqueued
\* and dequeued (also after Send returned an error for it), and never for an
\* event that was rejected (empty message, nil client) or dropped.
C13_NoRetry ==
  \A k \in Calls :
    /\ Cardinality(SendCalls(k)) <= 1
    /\ (k \in Range(enqueued) /\ k \notin QueuedCalls /\ wpc # "dequeued")
         => Cardinality(SendCalls(k)) = 1
    /\ k \in Range(resultLog) =>
         /\ Cardinality(SendCalls(k)) = 1
         /\ k \notin QueuedCalls
         /\ cur.call # k
    /\ (Rejected(k) \/ Dropped(k)) =>
         /\ SendCalls(k) = {}
         /\ k \notin QueuedCalls
    /\ Cardinality({i \in 1..Len(enqueued) : enqueued[i] = k}) <= 1

\* all is delivered and the worker waits: one event got an error from Send and
\* was sent once, another was dropped and never sent
C13_Witness ==
  \E k, j \in Calls :
    /\ sendRet[k] = ErrHTTP /\ k \in Range(resultLog)
    /\ Cardinality(SendCalls(k)) = 1
    /\ Dropped(j) /\ SendCalls(j) = {}
    /\ queue = <<>> /\ wpc = "recv"
    /\ Len(resultLog) = Len(enqueued)

\* C14, the step: the worker ends only by leaving the range loop, with the
\* queue closed and drained.
C14_Step ==
  (wpc # "exited" /\ wpc' = "exited") =>
     closed /\ queue = <<>> /\ wpc = "recv"

\* C14, the states: as long as Close has not been called the worker waits
\* for an event or processes one, and whenever there is something for it to
\* do it can do it: receive when the queue holds an event, call Send for the
\* event it holds, write the result of a Send call.
C14_State ==
  /\ ~closed => wpc \in {"recv", "dequeued", "sending"}
  /\ wpc = "exited" => closed /\ queue = <<>>
  /\ (wpc = "recv" /\ queue # <<>>) =>
       ENABLED (EventInfoWorkerReceive \/ EventWorkerReceive)
  /\ wpc = "dequeued" => ENABLED EventInfoWorkerSend
  /\ wpc = "sending" => ENABLED (\E r \in {Nil, ErrHTTP} : WorkerWriteResult(r))

\* C14: The worker terminates only when the queue is closed by Close: as long
\* as Close has not been called, the worker is always either waiting for an
\* event or processing one, and neither a delivery error, nor a dropped
\* event, nor a SetDSN call makes it stop.
C14_WorkerRunsUntilClose ==
  /\ [][C14_Step]_vars
  /\ []C14_State

\* after a delivery error, a dropped event and a SetDSN call the worker waits
\* for the next event
C14_Witness ==
  \E k, j \in Calls :
    /\ ~closed /\ wpc = "recv"
    /\ sendRet[k] = ErrHTTP /\ k \in Range(resultLog)
    /\ Dropped(j)
    /\ nSetDSN = 1

\* call k is a CapturePanic call
PanicCall(k) == panicValue[k] # NoPanicValue
\* f panicked in call k
Panicked(k) == PanicCall(k) /\ panicValue[k].kind # "returns"
\* CapturePanic made a Capture call with the message of the panic value
Reported(k) ==
  /\ pc[k] \in {"cfg", "done"}
  /\ arg[k].message = panicValue[k].text
  /\ arg[k].client \in {"client", "nil"}

C16_BadDSNClientUsable ==
  /\ nSetDSN = 0 => lastSetDSN.err # Nil /\ url = EmptyURL
  /\ url # EmptyURL => nSetDSN > 0
  /\ wpc = "exited" => closed
  /\ \A k \in Calls :
       pc[k] \in {"done", "panic"} /\ Valid(k)
         => Attempted(k) /\ (k \in Range(enqueued) \/ ch[k] = <<ErrEventDropped>>)
  /\ url = EmptyURL =>
       /\ authHeader = EmptyAuth
       /\ httpRequests = 0
       /\ \A i \in 1..Len(sendLog) : sendLog[i].url = EmptyURL
       /\ \A k \in Calls : sendRet[k] \in {"none", Nil}
       /\ \A k \in Range(resultLog) : ch[k] = <<Nil>>

\* the DSN did not parse, no SetDSN call followed, and the worker has handed
\* a queued event to Send and written its result
C16_Witness ==
  /\ ~lastSetDSN.dsn.parses
  /\ nSetDSN = 0
  /\ url = EmptyURL
  /\ resultLog # <<>>


\* a DSN scheme://u:p@host/path/id: it parses, has user-info with a password,
\* and its last path segment is not empty
C17_Form(d) ==
  /\ ~d.empty /\ d.parses /\ d.user /\ d.pass
  /\ Len(d.path) >= 1
  /\ d.path[Len(d.path)] # ""

\* C17: for every DSN scheme://u:p@host/path/id SetDSN succeeds and leaves
\* the project id id, the store url scheme://host/path/api/id/store/ and the
\* auth header "Sentry sentry_version=4, sentry_key=u, sentry_secret=p"
C17_DSNApplied ==
  nSetDSN > 0 /\ C17_Form(lastSetDSN.dsn) =>
    LET d == lastSetDSN.dsn
        n == Len(d.path)
    IN /\ lastSetDSN.err = Nil
       /\ projectID = d.path[n]
       /\ url = [scheme |-> d.scheme, host |-> d.host,
                 path |-> SubSeq(d.path, 1, n - 1)
                            \o <<"api", d.path[n], "store", "">>]
       /\ authHeader = <<"Sentry sentry_version=4, sentry_key=", d.key,
                         ", sentry_secret=", d.secret>>

\* the second SetDSN call, on a configured client, was given
\* http://k:s@example.com/a/b/2
C17_Witness ==
  /\ nSetDSN = 2
  /\ C17_Form(lastSetDSN.dsn)
  /\ lastSetDSN.dsn.scheme = "http"
  /\ lastSetDSN.dsn.key = "k"
  /\ url.path = <<"a", "b", "api", "2", "store", "">>

\* a SetDSN call with a DSN that parses and has no user-info, or user-info
\* without password, returns an error and changes nothing
C18_Step ==
  (/\ nSetDSN' # nSetDSN
   /\ ~lastSetDSN'.dsn.empty /\ lastSetDSN'.dsn.parses
   /\ ~lastSetDSN'.dsn.user \/ ~lastSetDSN'.dsn.pass)
  => /\ lastSetDSN'.err # Nil
     /\ url' = url
     /\ projectID' = projectID
     /\ authHeader' = authHeader

\* C18: SetDSN returns an error for every DSN without user-info and for
\* every DSN whose user-info has no password, and then url, project id and
\* auth header are what they were before the call
C18_MissingKeysRejected == [][C18_Step]_vars

\* a DSN without password was rejected on a configured client
C18_Witness ==
  /\ nSetDSN = 2
  /\ lastSetDSN.dsn.user /\ ~lastSetDSN.dsn.pass
  /\ lastSetDSN.err = ErrDSNMissingSecret
  /\ url # EmptyURL

\* C19: SetDSN returns "missing project id" for every DSN whose last path
\* segment is empty, a DSN without path included, on a new client and on a
\* configured one
C19_MissingProjectID ==
  (/\ nSetDSN > 0
   /\ ~lastSetDSN.dsn.empty /\ lastSetDSN.dsn.parses
   /\ lastSetDSN.dsn.user /\ lastSetDSN.dsn.pass
   /\ ~C17_Form(lastSetDSN.dsn))
  => lastSetDSN.err = ErrDSNMissingProject


\* the Capture call of a step that finalizes an event with a message and
\* queues it: the event before (in) and after (out) Init / FillDefaults
C20_Step ==
  \A k \in Calls :
    (/\ pc[k] = "cfg" /\ pc'[k] # "cfg"
     /\ merged[k].Message # ""
     /\ Len(queue') > Len(queue))
    => LET in == merged[k]
           out == queue'[Len(queue')].event
       IN /\ out.Level = IF in.Level = NoLevel THEN ERROR ELSE in.Level
          /\ out.Logger = IF in.Logger = "" THEN "root" ELSE in.Logger
          /\ out.Timestamp # ZeroTime
          /\ in.Timestamp # ZeroTime => out.Timestamp = in.Timestamp

\* C20: after a successful finalization (Init / FillDefaults) of an event
\* with a message, the level is ERROR when the caller set none, the logger
\* "root" when the caller set none, the timestamp is not zero, and each of
\* these fields the caller set keeps the caller's value
C20_DefaultsFilled == [][C20_Step]_vars

\* the caller set the level and left logger and timestamp unset: the queued
\* event has the caller's level, the logger "root" and the current time
C20_Witness ==
  /\ Len(queue) = 1
  /\ arg[1].event.Level = WARNING
  /\ arg[1].event.Logger = ""
  /\ arg[1].event.Timestamp = ZeroTime
  /\ queue[1].event.Level = WARNING
  /\ queue[1].event.Logger = "root"
  /\ queue[1].event.Timestamp = Now

\* C21: every event Capture enqueues has a non-empty Project: no event with
\* an empty Project is in the queue or is handed to Transport.Send, whatever
\* SetDSN calls were made on the client
C21_ProjectNonEmpty ==
  /\ \A i \in 1..Len(queue) : queue[i].event.Project # ""
  /\ \A i \in 1..Len(sendLog) : sendLog[i].event.Project # ""

\* a text of exactly 32 lowercase hexadecimal characters
IsHex32(t) == Len(t) = 32 /\ \A i \in 1..Len(t) : t[i] \in Range(HexDigits)

\* C22: the event id of every finalized event is exactly 32 lowercase
\* hexadecimal characters, both when finalization generated the id and when
\* the caller supplied one
C22_EventIDIsHex32 ==
  \A k \in Calls : finalID[k] # "" => IsHex32(IDText(finalID[k]))

\* the part of C22 the code keeps: every id uuid() generates is 32 lowercase
\* hexadecimal characters, and a finalized event without caller id has it
C22_GeneratedIDIsHex32 ==
  /\ \A r \in RandReads : IsHex32(uuidText(r))
  /\ \A k \in Calls :
       finalID[k] # "" /\ arg[k].event.EventID = ""
         => finalID[k] = uuid /\ IsHex32(IDText(finalID[k]))

\* the interfaces of the event that implement Culpriter and return a
\* non-empty culprit
C23_Suppliers ==
  {i \in 1..Len(input.Interfaces) :
     input.Interfaces[i].culpriter /\ input.Interfaces[i].culprit # ""}

C23_First == CHOOSE i \in C23_Suppliers : \A j \in C23_Suppliers : i <= j

\* C23: an unset culprit becomes the culprit of the first interface, in list
\* order, that implements Culpriter and returns a non-empty string, and the
\* scan stops there; it stays empty when no interface supplies one; a culprit
\* already set is left unchanged and no interface is consulted
C23_CulpritDerived ==
  (input.fn = "culprit" /\ output.done) =>
    IF input.Culprit # ""
    THEN output.Culprit = input.Culprit /\ output.consulted = <<>>
    ELSE IF C23_Suppliers = {}
    THEN output.Culprit = ""
    ELSE /\ output.Culprit = input.Interfaces[C23_First].culprit
         /\ \A j \in Range(output.consulted) : j <= C23_First

\* the culprit was taken from the second of three interfaces, the first
\* returning none and the third returning another one
C23_Witness ==
  /\ input.fn = "culprit" /\ output.done
  /\ input.Culprit = ""
  /\ Len(input.Interfaces) = 3
  /\ input.Interfaces[1] = Interface(TRUE, "")
  /\ input.Interfaces[2] = Interface(TRUE, "codez")
  /\ input.Interfaces[3] = Interface(TRUE, "other")
  /\ output.Culprit = "codez"
  /\ output.consulted = <<1, 2>>

\* the event and the two contexts of a Fill(ctxA, ctxB) call
CtxA == input.contexts[1]
CtxB == input.contexts[2]

\* C24: Event.Fill(ctxA, ctxB), for every scalar field: a value the event has
\* is kept; otherwise the value of ctxB is taken when ctxB sets the field,
\* otherwise the value of ctxA, whatever other fields ctxB sets
C24_ScalarsFilled ==
  (input.fn = "fill" /\ output.done) =>
    \A f \in ScalarFields :
      output.event[f] =
        IF input.event[f] # Zero(f) THEN input.event[f]
        ELSE IF CtxB[f] # Zero(f) THEN CtxB[f]
        ELSE CtxA[f]

\* Message is set only in ctxA and EventID only in ctxB: the event has both
C24_Witness ==
  /\ input.fn = "fill" /\ output.done
  /\ input.event = ZeroEvent
  /\ CtxA.Message = "a" /\ CtxA.EventID = ""
  /\ CtxB.Message = "" /\ CtxB.EventID = "b"
  /\ output.event.Message = "a"
  /\ output.event.EventID = "b"

\* C25: for tags, modules and interfaces Event.Fill appends the entries of
\* every context after the event's own: the event's entries keep their
\* positions, every entry of every context is there, and an empty list adds
\* nothing
C25_ListsAppended ==
  (input.fn = "fill" /\ output.done) =>
    \A f \in ListFields :
      LET own == input.event[f]
          out == output.event[f]
          rest == SubSeq(out, Len(own) + 1, Len(out))
      IN /\ Len(out) = Len(own) + Len(CtxA[f]) + Len(CtxB[f])
         /\ SubSeq(out, 1, Len(own)) = own
         /\ rest = CtxB[f] \o CtxA[f] \/ rest = CtxA[f] \o CtxB[f]

\* the event has two tags, ctxA none, ctxB two of which one is a tag of the
\* event: all four are in the result
C25_Witness ==
  /\ input.fn = "fill" /\ output.done
  /\ input.event.Tags = <<"e1", "e2">>
  /\ CtxA.Tags = <<>>
  /\ CtxB.Tags = <<"a1", "e1">>
  /\ output.event.Tags = <<"e1", "e2", "a1", "e1">>

\* C26: for the extra map Event.Fill adds a context's entry only for a key
\* the event's map does not have: a key of the event keeps the event's value,
\* a key several contexts set takes the value of the rightmost, and a nil map
\* of the event is made when an entry is added
C26_ExtraMerged ==
  (input.fn = "fill" /\ output.done) =>
    LET own == input.event.Extra
        out == output.event.Extra
    IN /\ DOMAIN out.m = DOMAIN own.m \cup DOMAIN CtxA.Extra.m
                           \cup DOMAIN CtxB.Extra.m
       /\ \A k \in DOMAIN out.m :
            out.m[k] = IF k \in DOMAIN own.m THEN own.m[k]
                       ELSE IF k \in DOMAIN CtxB.Extra.m THEN CtxB.Extra.m[k]
                       ELSE CtxA.Extra.m[k]
       /\ DOMAIN out.m # {} => ~out.isNil

\* the event's map is nil, ctxA sets k1 and k2, ctxB sets k1
C26_Witness ==
  /\ input.fn = "fill" /\ output.done
  /\ input.event.Extra.isNil
  /\ DOMAIN CtxA.Extra.m = {"k1", "k2"}
  /\ DOMAIN CtxB.Extra.m = {"k1"}
  /\ ~output.event.Extra.isNil
  /\ output.event.Extra.m["k1"] = "b"
  /\ output.event.Extra.m["k2"] = "a"

\* C27: after a Capture(packet, captureTags) of the map-tagged Packet client
\* that Init accepts, the packet's tags are the union of the client's tags,
\* the capture tags and the packet's own tags, the packet's value winning
\* over the capture tag and the capture tag over the client tag
C27_TagPrecedence ==
  (input.fn = "packet" /\ output.done /\ output.err = Nil) =>
    /\ DOMAIN output.Tags = DOMAIN input.packetTags
                              \cup DOMAIN input.captureTags
                              \cup DOMAIN input.clientTags
    /\ \A k \in DOMAIN output.Tags :
         output.Tags[k] =
           IF k \in DOMAIN input.packetTags THEN input.packetTags[k]
           ELSE IF k \in DOMAIN input.captureTags THEN input.captureTags[k]
           ELSE input.clientTags[k]

\* k1 is a tag of the packet, of the capture and of the client, k2 of the
\* capture and of the client
C27_Witness ==
  /\ input.fn = "packet" /\ output.done /\ output.err = Nil
  /\ DOMAIN input.packetTags = {"k1"}
  /\ DOMAIN input.captureTags = {"k1", "k2"}
  /\ DOMAIN input.clientTags = {"k1", "k2"}
  /\ output.Tags["k1"] = "packet"
  /\ output.Tags["k2"] = "capture"

\* the entries of a tag map, as tags
C28_TagsOf(m) == {Tag(k, m[k]) : k \in DOMAIN m}

\* C28: after Capture(eventInfo, captureTags) the tag list is the event's
\* original tags in their order, then the capture tags, then the client's
\* tags, none removed when keys collide, and the JSON form is the list of
\* [key, value] pairs in that order
C28_TagsInOrder ==
  (input.fn = "tags" /\ output.done) =>
    LET ne == Len(input.eventTags)
        nc == Cardinality(DOMAIN input.captureTags)
        nl == Cardinality(DOMAIN input.clientTags)
        out == output.Tags
        n == Len(out)
    IN /\ n = ne + nc + nl
       /\ SubSeq(out, 1, ne) = input.eventTags
       /\ {out[i] : i \in (ne + 1)..(ne + nc)} = C28_TagsOf(input.captureTags)
       /\ {out[i] : i \in (ne + nc + 1)..n} = C28_TagsOf(input.clientTags)
       /\ n > 0 =>
            /\ Len(output.json) = 6 * n + 1
            /\ output.json[1] = "[" /\ output.json[6 * n + 1] = "]"
            /\ \A i \in 1..n :
                 /\ SubSeq(output.json, 6 * i - 4, 6 * i) =
                      <<"[", out[i].Key, ",", out[i].Value, "]">>
                 /\ i < n => output.json[6 * i + 1] = ","

\* the event has two tags with the key k1, the capture tags and the client's
\* tags have k1 as well: four tags with the same key are on the wire
C28_Witness ==
  /\ input.fn = "tags" /\ output.done
  /\ input.eventTags = <<Tag("k1", "e"), Tag("k1", "f")>>
  /\ DOMAIN input.captureTags = {"k1"}
  /\ DOMAIN input.clientTags = {"k1"}
  /\ output.Tags = <<Tag("k1", "e"), Tag("k1", "f"), Tag("k1", "capture"),
                     Tag("k1", "client")>>
  /\ Len(output.json) = 25

\* C29: the transmission encoding depends only on the length L of the raw
\* JSON: for L > 1000 the body is base64(zlib(raw JSON)) with content type
\* application/octet-stream, and decoding then decompressing it gives the raw
\* JSON back; for L <= 1000 the body is the raw JSON with content type
\* application/json
C29_EncodingByLength ==
  (input.fn = "serialize" /\ output.done) =>
    IF input.packetJSON.len > 1000
    THEN /\ output.contentType = "application/octet-stream"
         /\ output.body.enc = "base64"
         /\ output.body.data.enc = "zlib"
         /\ Unzlib(DecodeBase64(output.body)) = input.packetJSON
    ELSE /\ output.contentType = "application/json"
         /\ output.body = input.packetJSON

\* a raw JSON of exactly 1000 bytes was sent as it is
C29_Witness ==
  /\ input.fn = "serialize" /\ output.done
  /\ input.packetJSON.len = 1000
  /\ output.contentType = "application/json"
  /\ output.body = input.packetJSON

\* a raw JSON of 1001 bytes was sent as base64(zlib(...))
C29_WitnessDeflated ==
  /\ input.fn = "serialize" /\ output.done
  /\ input.packetJSON.len = 1001
  /\ output.contentType = "application/octet-stream"

\* the request of a Send call completed with status 200
C30_Status200 == ~input.response.err /\ input.response.status = 200

\* C30: HTTPTransport.Send with a non-empty url issues exactly one HTTP POST
\* and returns nil if and only if the request completed with status 200,
\* a non-nil error otherwise; with an empty url it returns nil and issues no
\* request
C30_OneRequest ==
  (input.fn = "send" /\ output.done) =>
    IF input.url = EmptyURL
    THEN output.ret = Nil /\ output.requests = 0 /\ ~output.panics
    ELSE /\ ~output.panics
         /\ output.requests = 1
         /\ output.ret = Nil <=> C30_Status200

\* the part of C30 the code keeps: the same for every url that
\* http.NewRequest accepts
C30_OneRequestWellFormed ==
  (input.fn = "send" /\ output.done /\ ~NewRequestFails(input.url)) =>
    IF input.url = EmptyURL
    THEN output.ret = Nil /\ output.requests = 0 /\ ~output.panics
    ELSE /\ ~output.panics
         /\ output.requests = 1
         /\ output.ret = Nil <=> C30_Status200

\* the <<key, value>> pairs of a JSON text that is one object, in order
C31_Pairs(json) ==
  [i \in 1..((Len(json) - 1) \div 4) |-> <<json[4 * i - 2], json[4 * i]>>]

\* the text is exactly one JSON object
C31_IsObject(json) ==
  /\ Len(json) >= 5
  /\ Len(json) % 4 = 1
  /\ json[1] = "{"
  /\ json[Len(json)] = "}"
  /\ \A i \in 1..((Len(json) - 1) \div 4) :
       /\ json[4 * i - 1] = ":"
       /\ i < (Len(json) - 1) \div 4 => json[4 * i + 1] = ","

\* the event's own fields
C31_OwnFields(event) ==
  { <<"message", event.Message>>, <<"event_id", "id">>, <<"project", "1">>,
    <<"timestamp", "t">>, <<"level", "error">>, <<"logger", "root">> }
    \cup (IF event.Extra = "empty" THEN {} ELSE {<<"extra", event.Extra>>})

\* one pair per distinct class: the body of the last interface of that class
C31_InterfaceFields(interfaces) ==
  { <<interfaces[i].class, interfaces[i].body>> :
      i \in {j \in DOMAIN interfaces :
               \A k \in DOMAIN interfaces :
                 interfaces[k].class = interfaces[j].class => k <= j} }

C31_Shape(event, out) ==
  /\ ~out.panics
  /\ C31_IsObject(out.json)
  /\ LET pairs == C31_Pairs(out.json)
         expected == C31_OwnFields(event)
                       \cup C31_InterfaceFields(event.Interfaces)
     IN /\ {pairs[i] : i \in DOMAIN pairs} = expected
        /\ Len(pairs) = Cardinality(expected)

\* C31: the JSON of an event is one object holding the event's own fields
\* plus one key per distinct interface class among the attached interfaces;
\* of two interfaces with the same class only the later one appears; an
\* event with no interfaces serializes to its own fields only
C31_EventJSONShape ==
  (input.fn = "json" /\ output.done) => C31_Shape(input.event, output)

\* everything of the event is a value encoding/json accepts
C31_Marshals(event) ==
  /\ event.Extra # "unsupported"
  /\ \A i \in DOMAIN event.Interfaces : event.Interfaces[i].marshals

\* the part of C31 the code keeps: the same for every event json.Marshal
\* accepts
C31_EventJSONShapeMarshalable ==
  (input.fn = "json" /\ output.done /\ C31_Marshals(input.event)) =>
    C31_Shape(input.event, output)

\* the keys of the written pairs are all different
C32_DistinctKeys(w) ==
  \A i, j \in DOMAIN w : w[i].Key = w[j].Key => i = j

\* C32: tags deserialize from both JSON forms to an ordered pair list: the
\* list-of-pairs form gives the tags in list order with duplicate keys kept
\* (serializing a tag list and deserializing it gives back the same list),
\* and the object form gives one tag per key in the order in which the keys
\* are written in the object
C32_TagsDeserialize ==
  (input.fn = "unmarshal" /\ output.done) =>
    /\ input.form = "list" =>
         output.err = Nil /\ output.tags = input.written
    /\ (input.form = "object" /\ C32_DistinctKeys(input.written)) =>
         output.err = Nil /\ output.tags = input.written

\* the part of C32 the code keeps: the list form round-trips, and the object
\* form gives one tag per key, holding the value written last for the key
C32_ListRoundTrip ==
  (input.fn = "unmarshal" /\ output.done) =>
    /\ input.form = "list" =>
         output.err = Nil /\ output.tags = input.written
    /\ input.form = "object" =>
         /\ output.err = Nil
         /\ C32_DistinctKeys(output.tags)
         /\ {output.tags[i].Key : i \in DOMAIN output.tags}
              = {input.written[i].Key : i \in DOMAIN input.written}
         /\ \A i \in DOMAIN output.tags :
              \E j \in DOMAIN input.written :
                /\ input.written[j] = output.tags[i]
                /\ \A k \in DOMAIN input.written :
                     input.written[k].Key = output.tags[i].Key => k <= j

\* the positions of the hyphens in a formatted id (offsets 8, 13, 18, 23)
C33_Hyphens == {9, 14, 19, 24}

\* the text without the characters at the hyphen positions
C33_Unhyphenated(t) ==
  LET keep == SelectSeq([i \in 1..Len(t) |-> i],
                        LAMBDA i : i \notin C33_Hyphens)
  IN [i \in 1..Len(keep) |-> t[keep[i]]]

\* C33: a generated event id is always 32 lowercase hex characters with the
\* version nibble equal to 4 and the variant bits equal to 10, and
\* FormatEventID / FormatUUID of any 32-character id returns a 36-character
\* string with hyphens at offsets 8, 13, 18 and 23 whose other characters are
\* the id's characters in order
C33_IDAndFormat ==
  /\ (input.fn = "uuid" /\ output # NoOutput /\ output.err = Nil) =>
       /\ IsHex32(output.id)
       /\ output.id[13] = "4"
       /\ output.id[17] \in {"8", "9", "a", "b"}
  /\ (input.fn \in {"uuid", "format"} /\ output.done /\ output.err = Nil) =>
       /\ Len(output.formatted) = 36
       /\ \A i \in C33_Hyphens : output.formatted[i] = "-"
       /\ C33_Unhyphenated(output.formatted) = output.id

\* an id was generated from a read whose version and variant bits differ
\* from those of a version 4 UUID, and was formatted
C33_Witness ==
  /\ input.fn = "uuid"
  /\ output.done
  /\ output.err = Nil
  /\ input.read[7] \div 16 # 4
  /\ input.read[9] \div 64 # 2

\* a caller's text that is not hexadecimal was formatted
C33_WitnessFormat ==
  input.fn = "format" /\ output.done /\ ~IsHex32(input.id)

\* a Capture call of the attribute-based client whose NewPacket fails on its
\* preconditions
C34_PreconditionFails ==
  /\ input.fn = "capture"
  /\ output.done
  /\ input.message = "" \/ input.projectID = ""

\* C34: in the attribute-based client, when NewPacket fails (empty message,
\* or no project id configured yet), Capture returns normally without
\* panicking, nothing is enqueued, and the error can be read from the
\* channel Capture returns
C34_PreconditionFailureReported ==
  C34_PreconditionFails =>
    /\ ~output.panics
    /\ ~output.enqueued
    /\ ~output.chIsNil
    /\ Len(output.ch) = 1
    /\ output.ch[1] # Nil

\* the part of C34 the code keeps: NewPacket returns the error and nothing
\* is enqueued
C34_NothingEnqueued ==
  C34_PreconditionFails =>
    /\ output.newPacket.err # Nil
    /\ output.newPacket.isNil
    /\ ~output.enqueued

\* the attributes NewPacket merges, the client's first
C40_Merged == input.clientAttributes \o input.attr

\* NewPacket passes its preconditions and every attribute has a type
\* MergeAttributes knows
C40_NewPacketBuilds ==
  /\ input.fn = "capture"
  /\ output.done
  /\ input.message # "" /\ ~input.readErr /\ input.projectID # ""
  /\ \A i \in DOMAIN C40_Merged :
       C40_Merged[i].type \in {"Extra", "Logger", "Tag"}

\* the Extra attributes that have the key
C40_Having(k) ==
  {i \in DOMAIN C40_Merged :
     C40_Merged[i].type = "Extra" /\ k \in DOMAIN C40_Merged[i].m}

\* C40: in the attribute-based client, NewPacket with an Extra attribute
\* returns a packet whose extra map contains every key/value of the
\* attribute, a later attribute overriding an earlier one on the same key,
\* without failing, although the packet starts with no extra map
C40_ExtraMerged ==
  (C40_NewPacketBuilds
     /\ \E i \in DOMAIN C40_Merged : C40_Merged[i].type = "Extra") =>
    /\ ~output.newPacket.panics
    /\ output.newPacket.err = Nil
    /\ \A k \in {"k1", "k2"} :
         C40_Having(k) # {} =>
           /\ k \in DOMAIN output.newPacket.packet.Extra.m
           /\ \E i \in C40_Having(k) :
                /\ \A j \in C40_Having(k) : j <= i
                /\ output.newPacket.packet.Extra.m[k] = C40_Merged[i].m[k]

\* the part of C40 the code keeps: NewPacket returns a packet without
\* failing exactly when every Extra attribute is empty, and that packet has
\* no extra map
C40_OnlyEmptyExtraMerges ==
  C40_NewPacketBuilds =>
    /\ output.newPacket.panics
         <=> \E i \in DOMAIN C40_Merged :
               C40_Merged[i].type = "Extra" /\ DOMAIN C40_Merged[i].m # {}
    /\ ~output.newPacket.panics =>
         output.newPacket.err = Nil /\ output.newPacket.packet.Extra = NilMap

\* C35: in the synchronous client, Send(packet) with an empty message fails
\* with the construction error and does not deliver: Transport.Send is not
\* called for a packet whose Init returned an error, and Send returns that
\* error to the caller
C35_EmptyMessageNotSent ==
  (input.fn = "syncSend" /\ output.done /\ input.message = "") =>
    /\ output.initErr = ErrEmptyMessage
    /\ output.transportCalls = 0
    /\ output.ret = ErrEmptyMessage

\* the part of C35 the code keeps: Init returns the construction error for
\* an empty message and only for it
C35_InitRejectsEmptyMessage ==
  (input.fn = "syncSend" /\ output.done) =>
    (output.initErr = ErrEmptyMessage <=> input.message = "")

\* the calls whose event is in the queue or in the worker's hands
C36_Pending ==
  {queue[i].call : i \in 1..Len(queue)}
    \cup (IF cur = NoQueued THEN {} ELSE {cur.call})

\* C36: at most one value is ever written to any result channel: for each
\* Capture call exactly one of the writers (the empty-message path, the drop
\* path, the worker after Transport.Send) writes to its channel and does so
\* once, so the capacity-1 channel is never full at a write and neither
\* Capture nor the worker blocks on a result write, even when no caller ever
\* reads the channel
C36_OneWritePerChannel ==
  /\ \A k \in Calls : Len(ch[k]) <= 1
  /\ \A k \in Calls : pc[k] = "cfg" => ch[k] = <<>>
  /\ wpc \in {"dequeued", "sending"} => ch[cur.call] = <<>>
  /\ \A i \in 1..Len(queue) : ch[queue[i].call] = <<>>
  /\ \A k \in Calls :
       (pc[k] = "done" /\ ret[k].ch = "ch" /\ k \notin C36_Pending)
         => Len(ch[k]) = 1
  /\ \A k \in Calls :
       ch[k] # <<>> =>
         (IF k \in Range(resultLog) THEN 1 ELSE 0)
           + (IF finalID[k] # "" /\ k \notin Range(enqueued) THEN 1 ELSE 0)
           + (IF finalID[k] = "" THEN 1 ELSE 0) = 1

\* nobody has read a channel, and one channel holds the worker's result,
\* another the drop error and a third the error of an empty message
C36_Witness ==
  \E i, j, k \in Calls :
    /\ i \in Range(resultLog) /\ Len(ch[i]) = 1
    /\ ch[j] = <<ErrEventDropped>>
    /\ ch[k] \in {<<ErrEmptyMessage>>, <<ErrNoMessage>>}

\* C37, the steps: Close itself takes nothing out of the queue, and after
\* Close the queue changes only by the worker taking its oldest event
C37_Step ==
  /\ (~closed /\ closed') => (queue' = queue /\ cur' = cur)
  /\ (closed /\ queue' # queue) =>
       (queue # <<>> /\ queue' = Tail(queue) /\ cur' = Head(queue))

\* C37, the end: a worker that has terminated has sent every enqueued event
\* and written its result, and the queue is closed and empty
C37_State ==
  wpc = "exited" =>
    /\ closed
    /\ queue = <<>>
    /\ cur = NoQueued
    /\ Range(enqueued) \subseteq SentCalls
    /\ \A k \in Range(enqueued) :
         k \in Range(resultLog) /\ ch[k] = <<sendRet[k]>>

\* C37: Close does not lose queued events: every event that was enqueued
\* before Close is called is still dequeued and passed to Transport.Send,
\* its channel receives its result, and only after the queue is drained
\* does the worker terminate (every Transport.Send call returning and no
\* Capture running after Close)
C37_CloseDrainsQueue ==
  /\ [][C37_Step]_vars
  /\ []C37_State
  /\ []<>(closed =>
            /\ queue = <<>>
            /\ cur = NoQueued
            /\ \A k \in Range(enqueued) :
                 k \in SentCalls /\ ch[k] = <<sendRet[k]>>)

\* Close was called while the queue was full and the worker held an event
C37_Witness ==
  /\ closed
  /\ Len(queue) = MaxQueueBuffer
  /\ cur # NoQueued
  /\ wpc = "sending"

\* and the worker has terminated after delivering those events
C37_WitnessDrained ==
  /\ closed
  /\ wpc = "exited"
  /\ Len(resultLog) = MaxQueueBuffer + 1

\* a step that is a SetDSN call returning an error
C38_Failed == nSetDSN' # nSetDSN /\ lastSetDSN'.err # Nil

\* C38, the steps: a SetDSN call that returns an error leaves url, project
\* id and auth header as they were
C38_Step ==
  C38_Failed =>
    url' = url /\ projectID' = projectID /\ authHeader' = authHeader

\* C38, the states: the triple is all empty or comes from one DSN
C38_Consistent ==
  \/ Config(url, projectID, authHeader) = EmptyConfig
  \/ \E d \in WideDSNs :
       /\ SetDSN(EmptyConfig, d).err = Nil
       /\ SetDSN(EmptyConfig, d).cfg = Config(url, projectID, authHeader)

\* C38: a failed SetDSN changes nothing: whenever SetDSN returns an error,
\* the client's url, project id and auth header are all equal to their
\* values before the call, so the triple always comes from one single
\* successful SetDSN (or is all empty)
C38_FailedSetDSNChangesNothing ==
  /\ [][C38_Step]_vars
  /\ []C38_Consistent

\* the part of C38 the code keeps: the errors SetDSN returns before it
\* reaches the path (parse error, missing keys, missing secret) change
\* nothing
C38_EarlyErrorsChangeNothing ==
  [][(C38_Failed /\ lastSetDSN'.err # ErrDSNMissingProject) =>
       url' = url /\ projectID' = projectID /\ authHeader' = authHeader]_vars

\* a step that is a SetDSN call with the empty string
C39_EmptyCall == nSetDSN' # nSetDSN /\ lastSetDSN'.dsn.empty

C39_Step ==
  C39_EmptyCall =>
    /\ lastSetDSN'.err = Nil
    /\ url' = url /\ projectID' = projectID /\ authHeader' = authHeader
    /\ HTTPDo(url') = HTTPDo(url)

\* C39: SetDSN with the empty string returns nil and leaves url, project id
\* and auth header unchanged: on a fresh client delivery stays disabled, and
\* on a client with a valid DSN the previous config stays in force (an empty
\* DSN does not disable delivery)
C39_EmptyDSNChangesNothing == [][C39_Step]_vars

\* SetDSN("") was called on a client configured by a valid DSN, which still
\* delivers
C39_Witness ==
  /\ nSetDSN = 2
  /\ lastSetDSN.dsn.empty
  /\ url # EmptyURL /\ projectID # "" /\ authHeader # EmptyAuth
  /\ HTTPDo(url) = 1

\* SetDSN("") was called on a fresh client, which still does not deliver
C39_WitnessFresh ==
  /\ nSetDSN = 1
  /\ lastSetDSN.dsn.empty
  /\ Config(url, projectID, authHeader) = EmptyConfig
  /\ HTTPDo(url) = 0

====
